---- MODULE Spec2Model ----
(***************************************************************************)
(* Token lifecycle of the enablebankinggo client library.                  *)
(*                                                                         *)
(* Spec    the self-signed-JWT authorizer of the main API client           *)
(*         (authorizer.AuthorizeRequest / generateJWT).                    *)
(* SpecCP  the control-panel client's refresh-and-replay                   *)
(*         (enablebankingcp APIClient.sendAuthenticatedRequest).           *)
(* SpecClassify  one transport outcome taken through the response          *)
(*         classifiers of both clients (sendRequest, sendRequestInternal)  *)
(*         and the error it yields through IsErrorResponse.                *)
(* SpecDefaults  the authorizer of a client constructed without options,   *)
(*         observed around the expiry of its first token.                  *)
(* SpecNew  NewClient and the option constructors it is called with.       *)
(* SpecOps  the operations of the main API client: input checks,           *)
(*         newRequest, the header layers and sendRequest.                  *)
(* SpecCPEnv  SpecCP with the unauthenticated operations, callers that     *)
(*         cancel their contexts and a second client built with WithToken. *)
(* SpecSurfaces  SpecOps or SpecCPEnv, for what is said of both clients.   *)
(* SpecStore  Spec with the two assignments of generateJWT as two steps.   *)
(* SpecFair, SpecCPFair  Spec and SpecCP under a fair scheduler.           *)
(* SpecHTTP  clients of both packages constructed one after another, and   *)
(*         the http.Client objects they hold.                              *)
(*                                                                         *)
(* Time is counted in ticks; TicksPerSecond ticks make one second, so that *)
(* the truncation of time.Now() to whole seconds in getJwtBody and         *)
(* sub-second durations are both visible.  The wall clock never runs       *)
(* backwards in this model.                                                *)
(***************************************************************************)
EXTENDS Integers, Sequences, FiniteSets, TLC

\* ------------------------------------------------------------------ bounds
TicksPerSecond == 2
MaxClock == 5
MaxTTL == 2
MaxExtraTTL == 2
MaxNegExtraTTL == 1
MaxCalls == 3
MaxCPCalls == 2
MaxOptions == 2
MaxOps == 2
MaxClients == 2

Goroutines == {"g1", "g2"}

VARIABLES
    \* main API authorizer
    now,          \* wall clock, in ticks
    tokenTTL,     \* authorizer.tokenTTL, seconds
    extraTTL,     \* authorizer.extraTTL, a duration in ticks
    signOK,       \* whether rsa.SignPKCS1v15 succeeds with the client's key
    token,        \* authorizer.token
    expiresAt,    \* authorizer.expiresAt, seconds since the epoch
    readers,      \* authorizer.m: goroutines holding the read lock
    writer,       \* authorizer.m: goroutine holding the write lock
    pc,           \* position of each goroutine inside AuthorizeRequest
    call,         \* per goroutine: what its current call read, did and returned
    calls,        \* AuthorizeRequest calls started so far
    mints,        \* generateJWT runs so far
    \* control-panel client
    cToken,       \* APIClient.token (a *Token)
    onTokenRefreshed, \* whether a callback is configured
    mu,           \* APIClient.mu: goroutine holding the mutex
    cpc,          \* position of each goroutine inside sendAuthenticatedRequest
    ccall,        \* per goroutine: its request, locals and what it dispatched
    cpCalls,      \* sendAuthenticatedRequest calls started so far
    refreshCalls, \* refresh-endpoint calls issued so far
    lastCred,     \* credential of the latest successful refresh response
    cbLog         \* callback invocations in order: the pointer handed over
                  \* and what it pointed to at that moment
VARIABLES
    \* one response going through both response classifiers
    clResp,       \* what c.httpClient.Do returned
    clWant,       \* whether the caller passed a result shape (resp != nil)
    clPhase,      \* "input", "classified", "delivered", "inspected"
    clMain,       \* sendRequest: the error returned and the value decoded
    clCP,         \* sendRequestInternal: the same
    clPath,       \* how an error reached the caller
    clDelivered,  \* the error the caller received
    clIs          \* what IsErrorResponse returned for it
VARIABLES
    \* operations of the main API client
    surface,      \* which client is in use: "main" or "controlpanel"
    cHeaders,     \* APIClient.headers, the client's default headers
    opc,          \* position of each goroutine inside an operation
    opcall,       \* per goroutine: the operation, its request and its result
    opCalls       \* operations started so far
VARIABLES
    \* a second control-panel client
    peerPtr,      \* its APIClient.token pointer
    peerToken     \* the Token object it points to when that is its own
VARIABLES
    \* one construction of a main API client
    ncApp,        \* applicationID argument
    ncKey,        \* privateKey argument ("nil" or "key")
    ncArgs,       \* the option expressions of the call, in order
    ncPhase,      \* "args", "call", "returned", "panicked"
    ncOptions,    \* the options built from ncArgs so far
    ncClient,     \* the *APIClient returned (nil: none)
    ncErr         \* the error returned
VARIABLES
    \* the http.Client objects of the process and the clients that hold them
    httpClients,  \* each *http.Client: its Transport and Timeout fields
    clients       \* the clients constructed so far: package and c.httpClient

authVars == <<now, tokenTTL, extraTTL, signOK, token, expiresAt, readers, writer,
              pc, call, calls, mints>>
cpVars == <<cToken, onTokenRefreshed, mu, cpc, ccall, cpCalls, refreshCalls,
           lastCred, cbLog>>
clVars == <<clResp, clWant, clPhase, clMain, clCP, clPath, clDelivered, clIs>>
opVars == <<surface, cHeaders, opc, opcall, opCalls>>
peerVars == <<peerPtr, peerToken>>
ncVars == <<ncApp, ncKey, ncArgs, ncPhase, ncOptions, ncClient, ncErr>>
httpVars == <<httpClients, clients>>
restVars == <<opVars, peerVars, ncVars, httpVars>>
vars == <<authVars, cpVars, clVars, restVars>>

\* ------------------------------------------------- main API: the authorizer

\* A JWT is determined by its claims: header, iss and aud are fixed for a
\* client and RS256 (PKCS#1 v1.5) signing is deterministic, so two tokens
\* with the same iat and exp are the same string.
NoToken == [iat |-> 0 - 1, exp |-> 0 - 1]
ZeroTime == -1

NoHeader == [scheme |-> "", tok |-> NoToken]
Bearer(t) == [scheme |-> "Bearer", tok |-> t]

\* time.Now().Unix(): whole seconds, truncated
Unix(n) == n \div TicksPerSecond

\* time.Unix(sec, 0) as a point on the tick clock
AtSecond(sec) == sec * TicksPerSecond

Before_OrAtEqual(t, u) == t <= u
\* t.Before(u)
Before(t, u) == t < u

\* a.token != "" && time.Now().Add(a.extraTTL).Before(a.expiresAt)
NotExpired(tok, exp, n) == tok # NoToken /\ Before(n + extraTTL, AtSecond(exp))

\* the fast-path condition, evaluated under the read lock
FastPathHit(n) == NotExpired(token, expiresAt, n)

RecheckHit_Never(n) == FALSE
RecheckHit_WiderSkew(n) ==
    token # NoToken /\ Before(n + extraTTL + TicksPerSecond, AtSecond(expiresAt))
\* the same condition re-evaluated under the write lock
RecheckHit(n) == NotExpired(token, expiresAt, n)

getJwtBody_NoTTL(n, ttl) == [iat |-> Unix(n), exp |-> Unix(n)]
\* getJwtBody: iat = now in whole seconds, exp = iat + ttl
getJwtBody(n, ttl) == [iat |-> Unix(n), exp |-> Unix(n) + ttl]

NewCall == [entryTok   |-> NoToken,  \* token cached on entry
            entryValid |-> FALSE,    \* ... and not expired on entry
            fastEpoch  |-> 0 - 1,    \* mints when the fast path missed
            chkEpoch   |-> 0 - 1,    \* mints at the re-check
            chkValid   |-> FALSE,    \* cache not expired at the deciding check
            chkPast    |-> FALSE,    \* clock at or past expiresAt at that check
            ran        |-> FALSE,    \* this call ran generateJWT
            hdr        |-> NoHeader, \* Authorization header of the request
            err        |-> FALSE]

AuthInit ==
    /\ now = 0
    /\ tokenTTL \in 1..MaxTTL
    /\ extraTTL \in (0 - MaxNegExtraTTL)..MaxExtraTTL
    /\ signOK \in BOOLEAN
    /\ token = NoToken
    /\ expiresAt = ZeroTime
    /\ readers = {}
    /\ writer = "none"
    /\ pc = [g \in Goroutines |-> "idle"]
    /\ call = [g \in Goroutines |-> NewCall]
    /\ calls = 0
    /\ mints = 0

\* the clock advances
Tick ==
    /\ now < MaxClock
    /\ now' = now + 1
    /\ UNCHANGED <<tokenTTL, extraTTL, signOK, token, expiresAt, readers, writer,
                   pc, call, calls, mints, cpVars, clVars, restVars>>

\* a goroutine enters AuthorizeRequest (from newRequest)
Begin(g) ==
    /\ pc[g] \in {"idle", "done"}
    /\ calls < MaxCalls
    /\ calls' = calls + 1
    /\ pc' = [pc EXCEPT ![g] = "rlock"]
    /\ call' = [call EXCEPT ![g] =
                  [NewCall EXCEPT !.entryTok = token,
                                  !.entryValid = NotExpired(token, expiresAt, now)]]
    /\ UNCHANGED <<now, tokenTTL, extraTTL, signOK, token, expiresAt, readers,
                   writer, mints, cpVars, clVars, restVars>>

\* a.m.RLock()
RLock(g) ==
    /\ pc[g] = "rlock"
    /\ writer = "none"
    /\ readers' = readers \cup {g}
    /\ pc' = [pc EXCEPT ![g] = "fast"]
    /\ UNCHANGED <<now, tokenTTL, extraTTL, signOK, token, expiresAt, writer,
                   call, calls, mints, cpVars, clVars, restVars>>

\* the fast path: check, copy the token, a.m.RUnlock()
FastPath(g) ==
    /\ pc[g] = "fast"
    /\ readers' = readers \ {g}
    /\ IF FastPathHit(now)
       THEN /\ pc' = [pc EXCEPT ![g] = "fastattach"]
            /\ call' = [call EXCEPT ![g].chkValid = NotExpired(token, expiresAt, now),
                                    ![g].chkPast = ~Before(now, AtSecond(expiresAt)),
                                    ![g].hdr = Bearer(token)]
       ELSE /\ pc' = [pc EXCEPT ![g] = "lock"]
            /\ call' = [call EXCEPT ![g].fastEpoch = mints]
    /\ UNCHANGED <<now, tokenTTL, extraTTL, signOK, token, expiresAt, writer,
                   calls, mints, cpVars, clVars, restVars>>

\* req.Header.Set("Authorization", "Bearer "+token); return nil
FastAttach(g) ==
    /\ pc[g] = "fastattach"
    /\ pc' = [pc EXCEPT ![g] = "done"]
    /\ UNCHANGED <<now, tokenTTL, extraTTL, signOK, token, expiresAt, readers,
                   writer, call, calls, mints, cpVars, clVars, restVars>>

\* a.m.Lock()
Lock(g) ==
    /\ pc[g] = "lock"
    /\ writer = "none"
    /\ readers = {}
    /\ writer' = g
    /\ pc' = [pc EXCEPT ![g] = "recheck"]
    /\ UNCHANGED <<now, tokenTTL, extraTTL, signOK, token, expiresAt, readers,
                   call, calls, mints, cpVars, clVars, restVars>>

\* the re-check under the write lock; on a hit attach a.token and return
\* (the deferred a.m.Unlock() runs)
Recheck(g) ==
    /\ pc[g] = "recheck"
    /\ IF RecheckHit(now)
       THEN /\ pc' = [pc EXCEPT ![g] = "done"]
            /\ writer' = "none"
            /\ call' = [call EXCEPT ![g].chkEpoch = mints,
                                    ![g].chkValid = NotExpired(token, expiresAt, now),
                                    ![g].chkPast = ~Before(now, AtSecond(expiresAt)),
                                    ![g].hdr = Bearer(token)]
       ELSE /\ pc' = [pc EXCEPT ![g] = "generate"]
            /\ writer' = writer
            /\ call' = [call EXCEPT ![g].chkEpoch = mints,
                                    ![g].chkValid = NotExpired(token, expiresAt, now)]
    /\ UNCHANGED <<now, tokenTTL, extraTTL, signOK, token, expiresAt, readers,
                   calls, mints, cpVars, clVars, restVars>>

\* generateJWT, then attach a.token or return the error; the deferred
\* a.m.Unlock() runs either way
GenerateJWT(g) ==
    /\ pc[g] = "generate"
    /\ mints' = mints + 1
    /\ writer' = "none"
    /\ pc' = [pc EXCEPT ![g] = "done"]
    /\ IF signOK
       THEN /\ token' = getJwtBody(now, tokenTTL)
            /\ expiresAt' = getJwtBody(now, tokenTTL).exp
            /\ call' = [call EXCEPT ![g].ran = TRUE,
                                    ![g].hdr = Bearer(getJwtBody(now, tokenTTL))]
       ELSE /\ UNCHANGED <<token, expiresAt>>
            /\ call' = [call EXCEPT ![g].ran = TRUE,
                                    ![g].err = TRUE]
    /\ UNCHANGED <<now, tokenTTL, extraTTL, signOK, readers, calls, cpVars, clVars, restVars>>

\* generateJWT statement by statement: a.token is assigned first and
\* a.expiresAt after it, both while the write lock is held
StoredExpiry_Stale(body) == expiresAt
\* a.expiresAt = expiresAt, the time.Unix(iat+ttl, 0) that getJwtBody returned
StoredExpiry(body) == body.exp

\* getJwtHeader, getJwtBody, sign, and a.token = ...; on an error nothing is
\* written and AuthorizeRequest returns (the deferred a.m.Unlock() runs)
StoreToken(g) ==
    /\ pc[g] = "generate"
    /\ mints' = mints + 1
    /\ IF signOK
       THEN /\ token' = getJwtBody(now, tokenTTL)
            /\ pc' = [pc EXCEPT ![g] = "storeExpiresAt"]
            /\ call' = [call EXCEPT ![g].ran = TRUE]
            /\ UNCHANGED writer
       ELSE /\ UNCHANGED token
            /\ pc' = [pc EXCEPT ![g] = "done"]
            /\ call' = [call EXCEPT ![g].ran = TRUE, ![g].err = TRUE]
            /\ writer' = "none"
    /\ UNCHANGED <<now, tokenTTL, extraTTL, signOK, expiresAt, readers, calls,
                   cpVars, clVars, restVars>>

\* a.expiresAt = expiresAt; generateJWT returns, the token is attached and
\* the deferred a.m.Unlock() runs
StoreExpiresAt(g) ==
    /\ pc[g] = "storeExpiresAt"
    /\ expiresAt' = StoredExpiry(token)
    /\ pc' = [pc EXCEPT ![g] = "done"]
    /\ writer' = "none"
    /\ call' = [call EXCEPT ![g].hdr = Bearer(token)]
    /\ UNCHANGED <<now, tokenTTL, extraTTL, signOK, token, readers, calls, mints,
                   cpVars, clVars, restVars>>

\* ------------------------------------------------ control panel: the client

\* Strings are modelled as pairs: <<"id", k>> is the k-th ID token the server
\* issued, <<"rt", k>> the k-th refresh token (k = 0: the ones the client was
\* constructed with), EmptyString is "".
EmptyString == <<"", 0>>
IDTokenNo(k) == <<"id", k>>
RefreshTokenNo(k) == <<"rt", k>>
\* what a read of a string racing with a write of it may also yield
TornString == <<"torn", 0>>

NilToken == [nil |-> TRUE, IDToken |-> EmptyString, RefreshToken |-> EmptyString,
             ExpiresIn |-> 0]
\* &Token{IDToken: ..., RefreshToken: ..., ExpiresIn: ...}
TokenOf(id, rt, exp) == [nil |-> FALSE, IDToken |-> id, RefreshToken |-> rt,
                         ExpiresIn |-> exp]

CPNoHeader == <<"", EmptyString>>
CPBearer(t) == <<"Bearer", t>>

\* request bodies, as bytes
NoBytes == <<>>
JSONBytes == <<"{", "}">>
FormBytes == <<"a", "=", "b">>

\* an io.Reader over data, pos bytes of which have been read; a nil Body has
\* present = FALSE
NilBody == [present |-> FALSE, data |-> NoBytes, pos |-> 0]
NewReader(data) == [present |-> TRUE, data |-> data, pos |-> 0]
\* io.ReadAll: the bytes not yet read
ReadAll(r) == SubSeq(r.data, r.pos + 1, Len(r.data))
\* the reader after it has been read to the end
Drained(r) == [r EXCEPT !.pos = Len(r.data)]

\* newRequest / newFormDataRequest as the application operations call them
NewRequest(method, path, ctype, bytes, want) ==
    [method |-> method, path |-> path, query |-> "", ctype |-> ctype,
     auth |-> CPNoHeader,
     body |-> IF ctype = "" THEN NilBody ELSE NewReader(bytes),
     want |-> want]

ListApplications == NewRequest("GET", "/applications", "", NoBytes, TRUE)
RegisterApplication ==
    NewRequest("POST", "/applications", "application/json", JSONBytes, TRUE)
UnlinkApplicationAccount ==
    NewRequest("POST", "/unlink_accounts", "application/x-www-form-urlencoded",
               FormBytes, FALSE)
Operations == {ListApplications, RegisterApplication, UnlinkApplicationAccount}

\* what the transport is handed: the request line, the headers and the bytes
\* it reads from the body
NoSent == [method |-> "", path |-> "", query |-> "", ctype |-> "",
           auth |-> CPNoHeader, body |-> NoBytes]
OnWire(req) == [method |-> req.method, path |-> req.path, query |-> req.query,
                ctype |-> req.ctype, auth |-> req.auth, body |-> ReadAll(req.body)]

\* responses of the server: a transport error, or a status and a body; a body
\* is a JSON object of the result shape, a structured error whose message is
\* "Unauthorized", another structured error, or not JSON at all
TransportError == [terr |-> TRUE, status |-> 0, body |-> "garbage"]
Response(st, b) == [terr |-> FALSE, status |-> st, body |-> b]
Responses ==
    {TransportError, Response(200, "object"), Response(200, "garbage"),
     Response(401, "unauthorized"), Response(403, "unauthorized"),
     Response(401, "error"), Response(401, "garbage"),
     Response(502, "unauthorized")}

\* json.Decode into an ErrorResponse: any JSON object decodes, a missing
\* "error" member leaves the message empty
DecodesAsError(b) == b \in {"object", "unauthorized", "error"}
ErrorMessage(b) == CASE b = "unauthorized" -> "Unauthorized"
                     [] b = "error" -> "Forbidden"
                     [] OTHER -> ""
\* json.Decode into the result shape
DecodesAsResult(b) == b \notin {"garbage", "empty"}

\* errors (and nil) as values
Outcome(kind, status, msg) == [kind |-> kind, status |-> status, msg |-> msg,
                               wrapped |-> FALSE]
Nil == Outcome("nil", 0, "")
NoOutcome == Outcome("none", 0, "")
Wrap_Identity(e) == e
\* fmt.Errorf("failed to refresh token: %w", refreshErr)
Wrap(e) == [e EXCEPT !.wrapped = TRUE]
\* errors.Unwrap of such an error
Unwrap(e) == [e EXCEPT !.wrapped = FALSE]

sendRequestInternal_2xxSuccess(r, want) ==
    IF r.terr THEN Outcome("transport", 0, "")
    ELSE IF r.status < 200 \/ r.status > 500
         THEN Outcome("status", r.status, "")
    ELSE IF r.status >= 300
         THEN IF DecodesAsError(r.body)
              THEN Outcome("ErrorResponse", 0, ErrorMessage(r.body))
              ELSE Outcome("apierror", r.status, "")
    ELSE IF want /\ ~DecodesAsResult(r.body) THEN Outcome("decode", 0, "")
    ELSE Nil
sendRequestInternal_NoRangeCheck(r, want) ==
    IF r.terr THEN Outcome("transport", 0, "")
    ELSE IF r.status # 200
         THEN IF DecodesAsError(r.body)
              THEN Outcome("ErrorResponse", 0, ErrorMessage(r.body))
              ELSE Outcome("apierror", r.status, "")
    ELSE IF want /\ ~DecodesAsResult(r.body) THEN Outcome("decode", 0, "")
    ELSE Nil
\* sendRequestInternal: classify the response
sendRequestInternal(r, want) ==
    IF r.terr THEN Outcome("transport", 0, "")
    ELSE IF r.status < 200 \/ r.status > 500
         THEN Outcome("status", r.status, "")
    ELSE IF r.status # 200
         THEN IF DecodesAsError(r.body)
              THEN Outcome("ErrorResponse", 0, ErrorMessage(r.body))
              ELSE Outcome("apierror", r.status, "")
    ELSE IF want /\ ~DecodesAsResult(r.body) THEN Outcome("decode", 0, "")
    ELSE Nil

IsUnauthorized_AnyErrorResponse(e, r) == e.kind = "ErrorResponse"
IsUnauthorized_ByStatus(e, r) == e.kind # "nil" /\ ~r.terr /\ r.status = 401
\* errResp, ok := IsErrorResponse(err); ok && errResp.ErrorObj.Message == "Unauthorized"
IsUnauthorized(e, r) == e.kind = "ErrorResponse" /\ e.msg = "Unauthorized"

\* the RefreshTokenResponse a successful refresh call decodes: the k-th
\* credential when the body is a token response, zero values otherwise
ExpiresInOf(k) == 3600 + k
RefreshTokenResponse(b, k) ==
    IF b = "object"
    THEN [id_token |-> IDTokenNo(k), refresh_token |-> RefreshTokenNo(k),
          expires_in |-> ExpiresInOf(k)]
    ELSE [id_token |-> EmptyString, refresh_token |-> EmptyString, expires_in |-> 0]
NoTokenResponse == [id_token |-> EmptyString, refresh_token |-> EmptyString,
                    expires_in |-> 0]
CredentialOf(resp) == TokenOf(resp.id_token, resp.refresh_token, resp.expires_in)

\* c.token.IDToken = newTokenResp.IDToken
OverwriteIDToken(tok, resp) == [tok EXCEPT !.IDToken = resp.id_token]
OverwriteRest_KeepRefreshToken(tok, resp) == [tok EXCEPT !.ExpiresIn = resp.expires_in]
\* c.token.RefreshToken = ...; c.token.ExpiresIn = ...
OverwriteRest(tok, resp) == [tok EXCEPT !.RefreshToken = resp.refresh_token,
                                        !.ExpiresIn = resp.expires_in]

ReplayRequest_SameReader(req, bodyBytes, id) == [req EXCEPT !.auth = CPBearer(id)]
\* req.Clone, the new bearer token, a fresh reader over the buffered body
ReplayRequest(req, bodyBytes, id) ==
    [req EXCEPT !.auth = CPBearer(id), !.body = NewReader(bodyBytes)]

\* The credential is one Token object: WithToken stores the caller's pointer,
\* the refresh assigns to its fields in place, and the callback is handed the
\* same pointer.  TokenAddr is that pointer, Deref what it points to now.
TokenAddr == "c.token"
Deref(p) == IF p = TokenAddr THEN cToken ELSE NilToken

CallbackConfigured_Always == TRUE
\* c.onTokenRefreshed != nil
CallbackConfigured == onTokenRefreshed

MutexFree_Always == TRUE
\* c.mu.Lock() returns only when no goroutine holds the mutex
MutexFree == mu = "none"

NewCPCall == [op         |-> ListApplications, \* the request as it was built
              req        |-> ListApplications, \* the *http.Request
              bodyBytes  |-> NoBytes,
              sent1      |-> NoSent,    \* first dispatch, as the transport saw it
              sent2      |-> NoSent,    \* replay, as the transport saw it
              first      |-> NoOutcome, \* error of the first dispatch
              refreshErr |-> NoOutcome, \* error of the refresh call
              second     |-> NoOutcome, \* error of the replay
              epoch      |-> 0 - 1,     \* refreshCalls when Unauthorized came back
              usedRT     |-> EmptyString, \* refresh token given to RefreshToken
              nSend      |-> 0,         \* dispatches of the request as built
              ctxDone    |-> FALSE,     \* the caller's context is cancelled
              nRefresh   |-> 0,
              nReplay    |-> 0,
              nCallback  |-> 0,
              newTokenResp |-> NoTokenResponse,
              ret        |-> NoOutcome] \* what the call returned

\* the initial credential: WithToken(nil), or WithToken of a signed-in user
InitialCredential == TokenOf(IDTokenNo(0), RefreshTokenNo(0), ExpiresInOf(0))

CPInit ==
    /\ cToken \in {NilToken, InitialCredential}
    /\ onTokenRefreshed \in BOOLEAN
    /\ mu = "none"
    /\ cpc = [g \in Goroutines |-> "idle"]
    /\ ccall = [g \in Goroutines |-> NewCPCall]
    /\ cpCalls = 0
    /\ refreshCalls = 0
    /\ lastCred = cToken
    /\ cbLog = <<>>

\* an application operation builds its request and calls sendAuthenticatedRequest
CPBegin(g, op) ==
    /\ cpc[g] \in {"idle", "done"}
    /\ cpCalls < MaxCPCalls
    /\ cpCalls' = cpCalls + 1
    /\ cpc' = [cpc EXCEPT ![g] = "attach"]
    /\ ccall' = [ccall EXCEPT ![g] = [NewCPCall EXCEPT !.op = op, !.req = op]]
    /\ UNCHANGED <<cToken, onTokenRefreshed, mu, refreshCalls, lastCred, cbLog, authVars, clVars, restVars>>

\* the values a read of c.token.IDToken may yield: the stored one, and, when
\* another goroutine is at the unsynchronised write of it, also the value being
\* written or a torn mix of the two
IDTokenReads ==
    {cToken.IDToken}
    \cup UNION {{ccall[h].newTokenResp.id_token, TornString} :
                    h \in {k \in Goroutines : cpc[k] = "writeID"}}

\* req.Header.Set("Authorization", "Bearer "+c.token.IDToken), then the body
\* is read into bodyBytes and replaced by a reader over them; a nil c.token
\* panics
CPAttach(g) ==
    /\ cpc[g] = "attach"
    /\ IF cToken.nil
       THEN /\ cpc' = [cpc EXCEPT ![g] = "panicked"]
            /\ UNCHANGED ccall
       ELSE \E id \in IDTokenReads :
            /\ cpc' = [cpc EXCEPT ![g] = "send"]
            /\ ccall' = [ccall EXCEPT
                 ![g].bodyBytes = IF ccall[g].req.body.present
                                  THEN ReadAll(ccall[g].req.body) ELSE NoBytes,
                 ![g].req = [ccall[g].req EXCEPT
                     !.auth = CPBearer(id),
                     !.body = NewReader(IF ccall[g].req.body.present
                                        THEN ReadAll(ccall[g].req.body) ELSE NoBytes)]]
    /\ UNCHANGED <<cToken, onTokenRefreshed, mu, cpCalls, refreshCalls, lastCred,
                   cbLog, authVars, clVars, restVars>>

\* err := c.sendRequestInternal(req, resp) and the branches on err
CPSend(g, r) ==
    /\ cpc[g] = "send"
    /\ LET e == sendRequestInternal(r, ccall[g].req.want)
           unauth == e.kind # "nil" /\ IsUnauthorized(e, r)
       IN /\ cpc' = [cpc EXCEPT ![g] = IF unauth THEN "lock" ELSE "done"]
          /\ ccall' = [ccall EXCEPT
                 ![g].sent1 = OnWire(ccall[g].req),
                 ![g].nSend = ccall[g].nSend + 1,
                 ![g].req = [ccall[g].req EXCEPT !.body = Drained(ccall[g].req.body)],
                 ![g].first = e,
                 ![g].epoch = IF unauth THEN refreshCalls ELSE 0 - 1,
                 ![g].ret = IF unauth THEN NoOutcome ELSE e]
    /\ UNCHANGED <<cToken, onTokenRefreshed, mu, cpCalls, refreshCalls, lastCred,
                   cbLog, authVars, clVars, restVars>>

\* c.mu.Lock(); defer c.mu.Unlock(); if c.token == nil { return err }
CPLock(g) ==
    /\ cpc[g] = "lock"
    /\ MutexFree
    /\ IF cToken.nil
       THEN /\ mu' = "none"
            /\ cpc' = [cpc EXCEPT ![g] = "done"]
            /\ ccall' = [ccall EXCEPT ![g].ret = ccall[g].first]
       ELSE /\ mu' = g
            /\ cpc' = [cpc EXCEPT ![g] = "refresh"]
            /\ UNCHANGED ccall
    /\ UNCHANGED <<cToken, onTokenRefreshed, cpCalls, refreshCalls, lastCred,
                   cbLog, authVars, clVars, restVars>>

\* c.RefreshToken(ctx, c.token.RefreshToken): the call is issued
CPRefresh(g) ==
    /\ cpc[g] = "refresh"
    /\ refreshCalls' = refreshCalls + 1
    /\ cpc' = [cpc EXCEPT ![g] = "refreshing"]
    /\ ccall' = [ccall EXCEPT ![g].usedRT = cToken.RefreshToken,
                              ![g].nRefresh = ccall[g].nRefresh + 1]
    /\ UNCHANGED <<cToken, onTokenRefreshed, mu, cpCalls, lastCred, cbLog, authVars, clVars, restVars>>

\* the refresh call returns; on an error the wrapped error is returned and the
\* deferred Unlock runs
CPRefreshed(g, r) ==
    /\ cpc[g] = "refreshing"
    /\ LET e == sendRequestInternal(r, TRUE)
       IN IF e.kind # "nil"
          THEN /\ cpc' = [cpc EXCEPT ![g] = "done"]
               /\ mu' = "none"
               /\ ccall' = [ccall EXCEPT ![g].refreshErr = e, ![g].ret = Wrap(e)]
               /\ UNCHANGED lastCred
          ELSE /\ cpc' = [cpc EXCEPT ![g] = "writeID"]
               /\ mu' = mu
               /\ ccall' = [ccall EXCEPT
                      ![g].refreshErr = e,
                      ![g].newTokenResp = RefreshTokenResponse(r.body, refreshCalls)]
               /\ lastCred' = CredentialOf(RefreshTokenResponse(r.body, refreshCalls))
    /\ UNCHANGED <<cToken, onTokenRefreshed, cpCalls, refreshCalls, cbLog, authVars, clVars, restVars>>

\* c.token.IDToken = newTokenResp.IDToken
CPWriteID(g) ==
    /\ cpc[g] = "writeID"
    /\ cToken' = OverwriteIDToken(cToken, ccall[g].newTokenResp)
    /\ cpc' = [cpc EXCEPT ![g] = "writeRest"]
    /\ UNCHANGED <<onTokenRefreshed, mu, ccall, cpCalls, refreshCalls, lastCred,
                   cbLog, authVars, clVars, restVars>>

\* c.token.RefreshToken = newTokenResp.RefreshToken; c.token.ExpiresIn = ...
CPWriteRest(g) ==
    /\ cpc[g] = "writeRest"
    /\ cToken' = OverwriteRest(cToken, ccall[g].newTokenResp)
    /\ cpc' = [cpc EXCEPT ![g] = "callback"]
    /\ UNCHANGED <<onTokenRefreshed, mu, ccall, cpCalls, refreshCalls, lastCred,
                   cbLog, authVars, clVars, restVars>>

\* if c.onTokenRefreshed != nil { c.onTokenRefreshed(c.token) }
CPCallback(g) ==
    /\ cpc[g] = "callback"
    /\ cpc' = [cpc EXCEPT ![g] = "replay"]
    /\ IF CallbackConfigured
       THEN /\ cbLog' = Append(cbLog, [ptr |-> TokenAddr, seen |-> Deref(TokenAddr)])
            /\ ccall' = [ccall EXCEPT ![g].nCallback = ccall[g].nCallback + 1]
       ELSE UNCHANGED <<cbLog, ccall>>
    /\ UNCHANGED <<cToken, onTokenRefreshed, mu, cpCalls, refreshCalls, lastCred,
                   authVars, clVars, restVars>>

\* the replay: clone, new bearer, buffered body, one dispatch whose result is
\* returned; the deferred Unlock runs
CPReplay(g, r) ==
    /\ cpc[g] = "replay"
    /\ LET cloned == ReplayRequest(ccall[g].req, ccall[g].bodyBytes,
                                   ccall[g].newTokenResp.id_token)
       IN ccall' = [ccall EXCEPT
              ![g].sent2 = OnWire(cloned),
              ![g].nReplay = ccall[g].nReplay + 1,
              ![g].second = sendRequestInternal(r, ccall[g].req.want),
              ![g].ret = sendRequestInternal(r, ccall[g].req.want)]
    /\ cpc' = [cpc EXCEPT ![g] = "done"]
    /\ mu' = "none"
    /\ UNCHANGED <<cToken, onTokenRefreshed, cpCalls, refreshCalls, lastCred,
                   cbLog, authVars, clVars, restVars>>

\* ------------------------------- control panel: unauthenticated operations
RelyingpartyGetOOBConfirmationCode ==
    [NewRequest("POST", "/relyingparty/getOobConfirmationCode", "application/json",
                JSONBytes, TRUE) EXCEPT !.query = "key"]
RelyingpartyEmailLinkSignin ==
    NewRequest("POST", "/relyingparty/emailLinkSignin", "application/json",
               JSONBytes, TRUE)
RefreshToken ==
    NewRequest("POST", "/token", "application/x-www-form-urlencoded", FormBytes, TRUE)
UnauthenticatedOperations ==
    {RelyingpartyGetOOBConfirmationCode, RelyingpartyEmailLinkSignin, RefreshToken}

\* An unauthenticated operation is called: the two Relyingparty operations
\* return an error for a nil req, otherwise the request is built
CPBeginUnauthenticated(g, op, nilReq) ==
    /\ cpc[g] \in {"idle", "done"}
    /\ cpCalls < MaxCPCalls
    /\ nilReq => op # RefreshToken
    /\ cpCalls' = cpCalls + 1
    /\ cpc' = [cpc EXCEPT ![g] = IF nilReq THEN "done" ELSE "usend"]
    /\ ccall' = [ccall EXCEPT ![g] =
                   [NewCPCall EXCEPT !.op = op, !.req = op,
                       !.ret = IF nilReq THEN Outcome("validation", 0, "")
                               ELSE NoOutcome]]
    /\ UNCHANGED <<cToken, onTokenRefreshed, mu, refreshCalls, lastCred, cbLog,
                   authVars, clVars, restVars>>

sendUnauthenticatedRequest_Retry(e) ==
    IF e.kind = "ErrorResponse" /\ e.msg = "Unauthorized" THEN "lock" ELSE "done"
\* sendUnauthenticatedRequest: whatever error sendRequestInternal returned,
\* the function returns it; the position of the call afterwards
sendUnauthenticatedRequest(e) == "done"

\* sendUnauthenticatedRequest: return c.sendRequestInternal(req, resp)
CPSendUnauthenticated(g, r) ==
    /\ cpc[g] = "usend"
    /\ cpc' = [cpc EXCEPT ![g] =
                 sendUnauthenticatedRequest(sendRequestInternal(r, ccall[g].req.want))]
    /\ ccall' = [ccall EXCEPT
           ![g].sent1 = OnWire(ccall[g].req),
           ![g].nSend = ccall[g].nSend + 1,
           ![g].req = [ccall[g].req EXCEPT !.body = Drained(ccall[g].req.body)],
           ![g].first = sendRequestInternal(r, ccall[g].req.want),
           ![g].ret = sendRequestInternal(r, ccall[g].req.want)]
    /\ UNCHANGED <<cToken, onTokenRefreshed, mu, cpCalls, refreshCalls, lastCred,
                   cbLog, authVars, clVars, restVars>>

\* ------------------------------------------- control panel: the contexts
\* The context of a call is named after the goroutine that makes the call;
\* Background is context.Background(), which is never cancelled.
Background == "background"
\* http.NewRequestWithContext(ctx, ...): the request carries the caller's ctx
DispatchContext(g) == g
RefreshContext_Background(g) == Background
\* c.RefreshToken(req.Context(), ...)
RefreshContext(g) == DispatchContext(g)
\* req.Clone(req.Context())
ReplayContext(g) == DispatchContext(g)

CtxDone(ctx) == ctx # Background /\ ccall[ctx].ctxDone

\* what c.httpClient.Do returns for a request with this context: once the
\* context is done, the context's error
RoundTrip(ctx) == IF CtxDone(ctx) THEN {TransportError} ELSE Responses

\* the caller cancels the context of a call that has not returned
CPCancel(g) ==
    /\ cpc[g] \notin {"idle", "done", "panicked"}
    /\ ~ccall[g].ctxDone
    /\ ccall' = [ccall EXCEPT ![g].ctxDone = TRUE]
    /\ UNCHANGED <<cToken, onTokenRefreshed, mu, cpc, cpCalls, refreshCalls,
                   lastCred, cbLog, authVars, clVars, restVars>>

\* --------------------------------------- a second control-panel client
\* The second client is NewClient(WithToken(p)): p is the pointer the first
\* client was given, or a pointer to a Token of its own.
PeerAddr == "peer.token"

PeerInit ==
    /\ peerToken = InitialCredential
    /\ peerPtr \in (IF cToken.nil THEN {PeerAddr} ELSE {TokenAddr, PeerAddr})

\* the credential the second client reads through its c.token
PeerObserved == IF peerPtr = TokenAddr THEN Deref(TokenAddr) ELSE peerToken

\* ------------------------------------------- main API: construction
ClientDefaultTokenTTL == 3600
ClientMaximumTokenTTL == 86400
\* 10 * time.Second
ClientDefaultTokenTTLExtraTime == 10 * TicksPerSecond

NilClient == [nil |-> TRUE, tokenTTL |-> 0, extraTTL |-> 0]

\* option expressions a caller may write: WithTokenTTL(ttl) and
\* WithTokenTTLExtraTime(d), d in ticks
TTLArgs == {0 - 1, 0, 1, ClientDefaultTokenTTL, ClientMaximumTokenTTL,
            ClientMaximumTokenTTL + 1}
ExtraTimeArgs == {0 - 1, 0, 5}
OptionArgs ==
    {[opt |-> "WithTokenTTL", arg |-> a] : a \in TTLArgs}
    \cup {[opt |-> "WithTokenTTLExtraTime", arg |-> a] : a \in ExtraTimeArgs}
ArgLists == UNION {[1..n -> OptionArgs] : n \in 0..MaxOptions}

ValidTokenTTL_AllowZero(ttl) == ~(ttl < 0 \/ ttl > ClientMaximumTokenTTL)
\* WithTokenTTL: if ttl <= 0 || ttl > ClientMaximumTokenTTL { panic(...) }
ValidTokenTTL(ttl) == ~(ttl <= 0 \/ ttl > ClientMaximumTokenTTL)

\* evaluating an option expression panics
OptionPanics(a) == a.opt = "WithTokenTTL" /\ ~ValidTokenTTL(a.arg)

\* the option function applied to the client under construction
ApplyOption(o, c) ==
    IF o.opt = "WithTokenTTL" THEN [c EXCEPT !.tokenTTL = o.arg]
    ELSE [c EXCEPT !.extraTTL = o.arg]

\* for _, option := range options { option(c) }
RECURSIVE ApplyOptions(_, _)
ApplyOptions(os, c) ==
    IF os = <<>> THEN c ELSE ApplyOptions(Tail(os), ApplyOption(Head(os), c))

ConfigurationError(msg) == Outcome("configuration", 0, msg)

NewClientError_KeyUnchecked(app, key) ==
    IF app = "" THEN ConfigurationError("application ID cannot be empty") ELSE Nil
\* the argument checks of NewClient
NewClientError(app, key) ==
    IF app = "" THEN ConfigurationError("application ID cannot be empty")
    ELSE IF key = "nil" THEN ConfigurationError("private key cannot be nil")
    ELSE Nil

\* the client NewClient allocates before applying the options
DefaultClient == [nil |-> FALSE, tokenTTL |-> ClientDefaultTokenTTL,
                  extraTTL |-> ClientDefaultTokenTTLExtraTime]

NcInit ==
    /\ ncApp \in {"", "app"}
    /\ ncKey \in {"nil", "key"}
    /\ ncArgs \in ArgLists
    /\ ncPhase = "args"
    /\ ncOptions = <<>>
    /\ ncClient = NilClient
    /\ ncErr = NoOutcome

\* the next option expression of the call is evaluated
BuildOption ==
    /\ ncPhase = "args"
    /\ Len(ncOptions) < Len(ncArgs)
    /\ IF OptionPanics(ncArgs[Len(ncOptions) + 1])
       THEN ncPhase' = "panicked" /\ UNCHANGED ncOptions
       ELSE /\ ncOptions' = Append(ncOptions, ncArgs[Len(ncOptions) + 1])
            /\ UNCHANGED ncPhase
    /\ UNCHANGED <<ncApp, ncKey, ncArgs, ncClient, ncErr, authVars, cpVars, clVars,
                   opVars, peerVars, httpVars>>

\* NewClient runs with the evaluated arguments
NewClient ==
    /\ ncPhase = "args"
    /\ Len(ncOptions) = Len(ncArgs)
    /\ ncPhase' = "returned"
    /\ ncErr' = NewClientError(ncApp, ncKey)
    /\ ncClient' = IF NewClientError(ncApp, ncKey) # Nil THEN NilClient
                   ELSE ApplyOptions(ncOptions, DefaultClient)
    /\ UNCHANGED <<ncApp, ncKey, ncArgs, ncOptions, authVars, cpVars, clVars,
                   opVars, peerVars, httpVars>>

\* ------------------------------------------- construction: the HTTP client
\* The *http.Client values of the process: http.DefaultClient, the package
\* variable of net/http that every user of the default client shares, and
\* two clients the caller allocated.  A nil Transport means
\* http.DefaultTransport, a zero Timeout means no timeout.
HTTPDefaultClient == "http.DefaultClient"
HTTPClientAddrs == {HTTPDefaultClient, "custom1", "custom2"}
NilTransport == "nil"
Transports == {"t1", "t2"}
\* 30 * time.Second, in seconds
ClientTimeout == 30
ZeroHTTPClient == [Transport |-> NilTransport, Timeout |-> 0]

\* the option expressions that touch the HTTP client
HTTPOptionArgs ==
    {[opt |-> "WithHTTPClient", arg |-> h] : h \in HTTPClientAddrs \ {HTTPDefaultClient}}
    \cup {[opt |-> "WithHTTPTransport", arg |-> t] : t \in Transports}
HTTPArgLists == UNION {[1..n -> HTTPOptionArgs] : n \in 0..MaxOptions}

\* A construction in progress: c is the client's httpClient field, heap the
\* http.Client objects.
\* WithHTTPClient: c.httpClient = httpClient
\* WithHTTPTransport: c.httpClient.Transport = transport
ApplyHTTPOption(o, st) ==
    IF o.opt = "WithHTTPClient"
    THEN [st EXCEPT !.c = o.arg]
    ELSE [st EXCEPT !.heap = [st.heap EXCEPT ![st.c].Transport = o.arg]]

RECURSIVE ApplyHTTPOptions(_, _)
ApplyHTTPOptions(os, st) ==
    IF os = <<>> THEN st
    ELSE ApplyHTTPOptions(Tail(os), ApplyHTTPOption(Head(os), st))

\* main API NewClient: httpClient: http.DefaultClient;
\* c.httpClient.Timeout = 30 * time.Second; then the options
NewClientHTTP(os, heap) ==
    ApplyHTTPOptions(os,
        [c |-> HTTPDefaultClient,
         heap |-> [heap EXCEPT ![HTTPDefaultClient].Timeout = ClientTimeout]])

\* control-panel NewClient: httpClient: http.DefaultClient; then the options
CPNewClientHTTP(os, heap) ==
    ApplyHTTPOptions(os, [c |-> HTTPDefaultClient, heap |-> heap])

HTTPInit ==
    /\ httpClients = [h \in HTTPClientAddrs |-> ZeroHTTPClient]
    /\ clients = <<>>

\* enablebankinggo.NewClient(applicationID, privateKey, os...) returns a client
ConstructMain(os) ==
    /\ Len(clients) < MaxClients
    /\ LET st == NewClientHTTP(os, httpClients)
       IN /\ httpClients' = st.heap
          /\ clients' = Append(clients, [pkg |-> "main", httpClient |-> st.c])
    /\ UNCHANGED <<authVars, cpVars, clVars, opVars, peerVars, ncVars>>

\* the control-panel package's NewClient(os...) returns a client
ConstructCP(os) ==
    /\ Len(clients) < MaxClients
    /\ LET st == CPNewClientHTTP(os, httpClients)
       IN /\ httpClients' = st.heap
          /\ clients' = Append(clients, [pkg |-> "controlpanel", httpClient |-> st.c])
    /\ UNCHANGED <<authVars, cpVars, clVars, opVars, peerVars, ncVars>>

\* ------------------------------------------- the response classifiers
\* Bodies: "object" is a JSON object of the result shape, "unauthorized" and
\* "error" are error records of the control-panel API ({"error": {...}}),
\* "mainerror" is an error record of the main API ({"message": ..., "error":
\* "ACCESS_DENIED"}), "garbage" is not JSON, "empty" is no body at all.
Bodies == {"object", "unauthorized", "error", "mainerror", "garbage", "empty"}
Statuses == {199, 200, 201, 204, 401, 500, 501, 502, 600}
ClResponses == {TransportError} \cup {Response(st, b) : st \in Statuses, b \in Bodies}

\* json.Decode into the main API's ErrorResponse: any JSON object decodes,
\* except that the member "error" must be a string there (it is an object in
\* the control-panel records)
DecodesAsMainError(b) == b \in {"object", "mainerror"}
MainErrorMessage(b) == IF b = "mainerror" THEN "Access denied" ELSE ""

sendRequest_Upto599(r, want) ==
    IF r.terr THEN Outcome("transport", 0, "")
    ELSE IF r.status < 200 \/ r.status > 599
         THEN Outcome("status", r.status, "")
    ELSE IF r.status # 200
         THEN IF DecodesAsMainError(r.body)
              THEN Outcome("ErrorResponse", 0, MainErrorMessage(r.body))
              ELSE Outcome("apierror", r.status, "")
    ELSE IF want /\ ~DecodesAsResult(r.body) THEN Outcome("decode", 0, "")
    ELSE Nil
sendRequest_IgnoreDecodeError(r, want) ==
    IF r.terr THEN Outcome("transport", 0, "")
    ELSE IF r.status < 200 \/ r.status > 500
         THEN Outcome("status", r.status, "")
    ELSE IF r.status # 200
         THEN IF DecodesAsMainError(r.body)
              THEN Outcome("ErrorResponse", 0, MainErrorMessage(r.body))
              ELSE Outcome("apierror", r.status, "")
    ELSE Nil
sendRequest_NoContentSuccess(r, want) ==
    IF r.terr THEN Outcome("transport", 0, "")
    ELSE IF r.status < 200 \/ r.status > 500
         THEN Outcome("status", r.status, "")
    ELSE IF r.status \notin {200, 204}
         THEN IF DecodesAsMainError(r.body)
              THEN Outcome("ErrorResponse", 0, MainErrorMessage(r.body))
              ELSE Outcome("apierror", r.status, "")
    ELSE IF want /\ ~DecodesAsResult(r.body) THEN Outcome("decode", 0, "")
    ELSE Nil
\* sendRequest of the main API client: the error it returns
sendRequest(r, want) ==
    IF r.terr THEN Outcome("transport", 0, "")
    ELSE IF r.status < 200 \/ r.status > 500
         THEN Outcome("status", r.status, "")
    ELSE IF r.status # 200
         THEN IF DecodesAsMainError(r.body)
              THEN Outcome("ErrorResponse", 0, MainErrorMessage(r.body))
              ELSE Outcome("apierror", r.status, "")
    ELSE IF want /\ ~DecodesAsResult(r.body) THEN Outcome("decode", 0, "")
    ELSE Nil

\* what the classifiers decode into the caller's result shape: the body, when
\* the status is 200, a shape was passed and the body decodes; nothing otherwise
NoValue == "none"
DecodedValue(r, want) ==
    IF ~r.terr /\ r.status = 200 /\ want /\ DecodesAsResult(r.body)
    THEN r.body ELSE NoValue

\* errors that do not come from a classifier
ValidationError == Outcome("validation", 0, "")
SigningError == Outcome("signing", 0, "")

\* the dynamic type of an error value
GoType(e) ==
    IF e.wrapped THEN "*fmt.wrapError"
    ELSE CASE e.kind = "ErrorResponse" -> "*ErrorResponse"
           [] e.kind = "transport" -> "*url.Error"
           [] e.kind = "decode" -> "*json.SyntaxError"
           [] e.kind = "nil" -> "nil"
           [] OTHER -> "*errors.errorString"

NotAnErrorResponse == [resp |-> Nil, ok |-> FALSE]
IsErrorResponse_NoUnwrap(e) ==
    IF GoType(e) = "*ErrorResponse" THEN [resp |-> e, ok |-> TRUE]
    ELSE NotAnErrorResponse
\* errors.As(err, &errorResp): the first error of the chain whose type is
\* *ErrorResponse
IsErrorResponse(e) ==
    IF GoType(e) = "*ErrorResponse" THEN [resp |-> e, ok |-> TRUE]
    ELSE IF e.wrapped /\ GoType(Unwrap(e)) = "*ErrorResponse"
         THEN [resp |-> Unwrap(e), ok |-> TRUE]
    ELSE NotAnErrorResponse

Paths == {"main", "controlpanel", "replay", "refresh", "validation", "signing"}
NoResult == [err |-> NoOutcome, val |-> NoValue]

ClInit ==
    /\ clResp \in ClResponses
    /\ clWant \in BOOLEAN
    /\ clPhase = "input"
    /\ clMain = NoResult
    /\ clCP = NoResult
    /\ clPath = "none"
    /\ clDelivered = NoOutcome
    /\ clIs = NotAnErrorResponse

ClQuiet ==
    /\ clResp = TransportError
    /\ clWant = FALSE
    /\ clPhase = "input"
    /\ clMain = NoResult
    /\ clCP = NoResult
    /\ clPath = "none"
    /\ clDelivered = NoOutcome
    /\ clIs = NotAnErrorResponse

\* the response is classified by each client
Classify ==
    /\ clPhase = "input"
    /\ clPhase' = "classified"
    /\ clMain' = [err |-> sendRequest(clResp, clWant),
                  val |-> DecodedValue(clResp, clWant)]
    /\ clCP' = [err |-> sendRequestInternal(clResp, clWant),
                val |-> DecodedValue(clResp, clWant)]
    /\ UNCHANGED <<clResp, clWant, clPath, clDelivered, clIs, authVars, cpVars, restVars>>

\* an error reaches the caller: returned by a classifier (directly or as the
\* outcome of the replay), wrapped as a refresh failure, returned by an
\* operation's argument validation, or wrapped by AuthorizeRequest when
\* signing failed
Deliver(path) ==
    /\ clPhase = "classified"
    /\ path = "refresh" => sendRequestInternal(clResp, TRUE) # Nil
    /\ clPhase' = "delivered"
    /\ clPath' = path
    /\ clDelivered' =
         CASE path = "main" -> clMain.err
           [] path = "controlpanel" -> clCP.err
           [] path = "replay" -> sendRequestInternal(clResp, clWant)
           [] path = "refresh" -> Wrap(sendRequestInternal(clResp, TRUE))
           [] path = "validation" -> ValidationError
           [] path = "signing" -> Wrap(SigningError)
    /\ UNCHANGED <<clResp, clWant, clMain, clCP, clIs, authVars, cpVars, restVars>>

\* the caller passes the error to IsErrorResponse
Inspect ==
    /\ clPhase = "delivered"
    /\ clPhase' = "inspected"
    /\ clIs' = IsErrorResponse(clDelivered)
    /\ UNCHANGED <<clResp, clWant, clMain, clCP, clPath, clDelivered, authVars, cpVars, restVars>>

\* ------------------------------------------- main API: the operations
\* Header is a map from header keys to values; a key is any string. Two keys
\* of the model differ only in case, one is the header the authorizer sets and
\* one the header newRequest sets for a JSON body.
HeaderKeys == {"Psu-Ip-Address", "psu-ip-address", "Authorization", "Content-Type"}

\* a header value that is not a bearer token: who set it and under which key
Plain(who, k) == [scheme |-> who, tok |-> NoToken, key |-> k]
ApplicationJSON == Plain("application/json", "Content-Type")

\* NewHeaders(): the empty map
NewHeaders == <<>>

\* maps a caller can build with Set: the empty one, those with one entry, and
\* the one with the two keys that differ only in case
HeadersOf(who) ==
    {[k \in K |-> Plain(who, k)] :
        K \in {{}} \cup {{k} : k \in HeaderKeys}
                  \cup {{"Psu-Ip-Address", "psu-ip-address"}}}
DefaultHeaders == HeadersOf("client")
\* a nil params or a nil params.Headers has the effect of the empty map
CallHeaders == HeadersOf("call")

\* http.Header keys are canonicalised by Set
CanonicalKey(k) == IF k = "psu-ip-address" THEN "Psu-Ip-Address" ELSE k

\* httpHeader.Set(key, value)
HTTPSet(hh, k, v) ==
    [x \in DOMAIN hh \cup {CanonicalKey(k)} |->
        IF x = CanonicalKey(k) THEN v ELSE hh[x]]

FillHTTPHeader_KeepExisting(h, hh) ==
    LET K == {CanonicalKey(k) : k \in DOMAIN h}
    IN {[x \in DOMAIN hh \cup K |->
            IF x \in DOMAIN hh THEN hh[x] ELSE h[pick[x]]] :
        pick \in {f \in [K -> DOMAIN h] : \A x \in K : CanonicalKey(f[x]) = x}}
\* FillHTTPHeader: httpHeader.Set for every entry, in the map's iteration
\* order, which is unspecified: of the entries that share a canonical key any
\* one may be the last written. The set of headers that can result.
FillHTTPHeader(h, hh) ==
    LET K == {CanonicalKey(k) : k \in DOMAIN h}
    IN {[x \in DOMAIN hh \cup K |->
            IF x \in K THEN h[pick[x]] ELSE hh[x]] :
        pick \in {f \in [K -> DOMAIN h] : \A x \in K : CanonicalKey(f[x]) = x}}

\* the operations: how many inputs are checked before anything else, whether
\* the parameters carry Headers, whether a JSON body is sent
MainOperation(name, checks, headers, body) ==
    [name |-> name, checks |-> checks, headers |-> headers, body |-> body]
GetAccountDetails == MainOperation("GetAccountDetails", 1, TRUE, FALSE)
GetAccountBalances == MainOperation("GetAccountBalances", 1, TRUE, FALSE)
GetAccountTransactions == MainOperation("GetAccountTransactions", 1, TRUE, FALSE)
GetTransactionDetails == MainOperation("GetTransactionDetails", 2, TRUE, FALSE)
StartAuthorization == MainOperation("StartAuthorization", 1, FALSE, TRUE)
AuthorizeSession == MainOperation("AuthorizeSession", 2, FALSE, TRUE)
GetSession == MainOperation("GetSession", 1, FALSE, FALSE)
DeleteSession == MainOperation("DeleteSession", 1, TRUE, FALSE)
GetApplication == MainOperation("GetApplication", 0, FALSE, FALSE)
GetASPSPs == MainOperation("GetASPSPs", 0, FALSE, FALSE)
MainOperations ==
    {GetAccountDetails, GetAccountBalances, GetAccountTransactions,
     GetTransactionDetails, StartAuthorization, AuthorizeSession, GetSession,
     DeleteSession, GetApplication, GetASPSPs}

\* responses the server gives to a main API request
MainResponses ==
    {TransportError, Response(200, "object"), Response(401, "mainerror")}

Validate_Skipped(op, bad) == Nil
\* the checks at the top of an operation; bad is the first input that is
\* empty (or nil), 0 when none is
Validate(op, bad) == IF bad > 0 THEN ValidationError ELSE Nil

AuthorizeError_Swallowed(c) == Nil
\* what AuthorizeRequest returns:
\* fmt.Errorf("failed to create JWT: %w", err) when generateJWT failed
AuthorizeError(c) == IF c.err THEN Wrap(SigningError) ELSE Nil

AfterDo_RetryTransportError(e) == IF e.kind = "transport" THEN "send" ELSE "done"
\* where an operation goes after c.httpClient.Do returned: it returns
AfterDo(e) == "done"

NewOp == [op     |-> GetApplication,
          bad    |-> 0,           \* first empty input, 0 when none
          params |-> NewHeaders,  \* params.Headers
          header |-> NewHeaders,  \* req.Header
          nDo    |-> 0,           \* calls of c.httpClient.Do
          sent   |-> NewHeaders,  \* req.Header as the transport saw it
          err    |-> NoOutcome]   \* the error the operation returned

OpInit ==
    /\ cHeaders \in DefaultHeaders
    /\ opc = [g \in Goroutines |-> "idle"]
    /\ opcall = [g \in Goroutines |-> NewOp]
    /\ opCalls = 0

\* An operation is called: its checks, then newRequest up to the call of
\* AuthorizeRequest (the client's headers are filled in, Content-Type is set
\* for a body)
OpStart(g, op, bad) ==
    /\ opc[g] \in {"idle", "done"}
    /\ opCalls < MaxOps
    /\ opCalls' = opCalls + 1
    /\ IF Validate(op, bad) # Nil
       THEN /\ opc' = [opc EXCEPT ![g] = "done"]
            /\ opcall' = [opcall EXCEPT ![g] =
                   [NewOp EXCEPT !.op = op, !.bad = bad,
                                 !.err = Validate(op, bad)]]
            /\ UNCHANGED authVars
       ELSE /\ opc' = [opc EXCEPT ![g] = "authorize"]
            /\ \E hh \in FillHTTPHeader(cHeaders, NewHeaders) :
                 opcall' = [opcall EXCEPT ![g] =
                   [NewOp EXCEPT !.op = op, !.bad = bad,
                       !.header = IF op.body
                                  THEN HTTPSet(hh, "Content-Type", ApplicationJSON)
                                  ELSE hh]]
            /\ calls' = calls + 1
            /\ pc' = [pc EXCEPT ![g] = "rlock"]
            /\ call' = [call EXCEPT ![g] =
                          [NewCall EXCEPT !.entryTok = token,
                                          !.entryValid = NotExpired(token, expiresAt, now)]]
            /\ UNCHANGED <<now, tokenTTL, extraTTL, signOK, token, expiresAt,
                           readers, writer, mints>>
    /\ UNCHANGED <<surface, cHeaders, cpVars, clVars, peerVars, ncVars, httpVars>>

\* AuthorizeRequest has returned: newRequest returns its error, or the request
\* with the Authorization header; the operation returns the error, or fills
\* in params.Headers (the argument of the call that is looked at only here)
OpAuthorized(g, params) ==
    /\ opc[g] = "authorize"
    /\ pc[g] = "done"
    /\ IF AuthorizeError(call[g]) # Nil
       THEN /\ opc' = [opc EXCEPT ![g] = "done"]
            /\ opcall' = [opcall EXCEPT ![g].err = AuthorizeError(call[g])]
       ELSE /\ opc' = [opc EXCEPT ![g] = "send"]
            /\ \E hh \in FillHTTPHeader(params,
                           HTTPSet(opcall[g].header, "Authorization", call[g].hdr)) :
                 opcall' = [opcall EXCEPT ![g].params = params, ![g].header = hh]
    /\ UNCHANGED <<surface, cHeaders, opCalls, authVars, cpVars, clVars, peerVars,
                   ncVars, httpVars>>

\* c.sendRequest(reqHTTP, &resp), and the operation returns
OpSend(g, r) ==
    /\ opc[g] = "send"
    /\ opc' = [opc EXCEPT ![g] = AfterDo(sendRequest(r, TRUE))]
    /\ opcall' = [opcall EXCEPT ![g].nDo = opcall[g].nDo + 1,
                                ![g].sent = opcall[g].header,
                                ![g].err = sendRequest(r, TRUE)]
    /\ UNCHANGED <<surface, cHeaders, opCalls, authVars, cpVars, clVars, peerVars,
                   ncVars, httpVars>>

\* ------------------------------------------------------- the specifications

CPQuiet ==
    /\ cToken = NilToken
    /\ onTokenRefreshed = FALSE
    /\ mu = "none"
    /\ cpc = [g \in Goroutines |-> "idle"]
    /\ ccall = [g \in Goroutines |-> NewCPCall]
    /\ cpCalls = 0
    /\ refreshCalls = 0
    /\ lastCred = NilToken
    /\ cbLog = <<>>

AuthQuiet ==
    /\ now = 0
    /\ tokenTTL = 1
    /\ extraTTL = 0
    /\ signOK = TRUE
    /\ token = NoToken
    /\ expiresAt = ZeroTime
    /\ readers = {}
    /\ writer = "none"
    /\ pc = [g \in Goroutines |-> "idle"]
    /\ call = [g \in Goroutines |-> NewCall]
    /\ calls = 0
    /\ mints = 0

\* no main API operation has been started
OpQuiet ==
    /\ cHeaders = NewHeaders
    /\ opc = [g \in Goroutines |-> "idle"]
    /\ opcall = [g \in Goroutines |-> NewOp]
    /\ opCalls = 0

\* the second control-panel client has a Token of its own
PeerQuiet ==
    /\ peerPtr = PeerAddr
    /\ peerToken = NilToken

\* no construction is being looked at
NcQuiet ==
    /\ ncApp = "app"
    /\ ncKey = "key"
    /\ ncArgs = <<>>
    /\ ncPhase = "returned"
    /\ ncOptions = <<>>
    /\ ncClient = NilClient
    /\ ncErr = NoOutcome

RestQuiet == OpQuiet /\ PeerQuiet /\ NcQuiet /\ HTTPInit

Init == AuthInit /\ CPQuiet /\ ClQuiet /\ surface = "main" /\ RestQuiet

Next ==
    \/ Tick
    \/ \E g \in Goroutines : Begin(g)
    \/ \E g \in Goroutines : RLock(g)
    \/ \E g \in Goroutines : FastPath(g)
    \/ \E g \in Goroutines : FastAttach(g)
    \/ \E g \in Goroutines : Lock(g)
    \/ \E g \in Goroutines : Recheck(g)
    \/ \E g \in Goroutines : GenerateJWT(g)

Spec == Init /\ [][Next]_vars

\* Every goroutine that is inside AuthorizeRequest takes its next step when
\* it can (the scheduler is fair, signing returns).
FairAuth ==
    \A g \in Goroutines :
        /\ WF_vars(RLock(g))
        /\ WF_vars(FastPath(g))
        /\ WF_vars(FastAttach(g))
        /\ WF_vars(Lock(g))
        /\ WF_vars(Recheck(g))
        /\ WF_vars(GenerateJWT(g))

SpecFair == Init /\ [][Next]_vars /\ FairAuth

\* The authorizer with the two assignments of generateJWT as separate steps.
NextStore ==
    \/ Tick
    \/ \E g \in Goroutines : Begin(g)
    \/ \E g \in Goroutines : RLock(g)
    \/ \E g \in Goroutines : FastPath(g)
    \/ \E g \in Goroutines : FastAttach(g)
    \/ \E g \in Goroutines : Lock(g)
    \/ \E g \in Goroutines : Recheck(g)
    \/ \E g \in Goroutines : StoreToken(g)
    \/ \E g \in Goroutines : StoreExpiresAt(g)

SpecStore == Init /\ [][NextStore]_vars

InitCP == CPInit /\ AuthQuiet /\ ClQuiet /\ surface = "controlpanel" /\ RestQuiet

NextCP ==
    \/ \E g \in Goroutines : \E op \in Operations : CPBegin(g, op)
    \/ \E g \in Goroutines : CPAttach(g)
    \/ \E g \in Goroutines : \E r \in Responses : CPSend(g, r)
    \/ \E g \in Goroutines : CPLock(g)
    \/ \E g \in Goroutines : CPRefresh(g)
    \/ \E g \in Goroutines : \E r \in Responses : CPRefreshed(g, r)
    \/ \E g \in Goroutines : CPWriteID(g)
    \/ \E g \in Goroutines : CPWriteRest(g)
    \/ \E g \in Goroutines : CPCallback(g)
    \/ \E g \in Goroutines : \E r \in Responses : CPReplay(g, r)

SpecCP == InitCP /\ [][NextCP]_vars

\* Every goroutine that is inside sendAuthenticatedRequest takes its next
\* step when it can: the scheduler is fair, every transport call and every
\* callback returns.
FairCP ==
    \A g \in Goroutines :
        /\ WF_vars(CPAttach(g))
        /\ WF_vars(\E r \in Responses : CPSend(g, r))
        /\ WF_vars(CPLock(g))
        /\ WF_vars(CPRefresh(g))
        /\ WF_vars(\E r \in Responses : CPRefreshed(g, r))
        /\ WF_vars(CPWriteID(g))
        /\ WF_vars(CPWriteRest(g))
        /\ WF_vars(CPCallback(g))
        /\ WF_vars(\E r \in Responses : CPReplay(g, r))

SpecCPFair == InitCP /\ [][NextCP]_vars /\ FairCP

InitClassify == ClInit /\ AuthQuiet /\ CPQuiet /\ surface = "main" /\ RestQuiet

NextClassify ==
    \/ Classify
    \/ \E path \in Paths : Deliver(path)
    \/ Inspect

SpecClassify == InitClassify /\ [][NextClassify]_vars

\* The main API operations of one client. The clock stands still: the first
\* token that is minted is reused by every later call. One goroutine calls
\* every operation with every input; the other makes the calls that run
\* concurrently with them, of the operation that takes no input.
OperationsOf(g) == IF g = "g1" THEN MainOperations ELSE {GetApplication}

InitOps ==
    /\ AuthInit /\ tokenTTL = MaxTTL /\ extraTTL = 0
    /\ OpInit
    /\ CPQuiet /\ ClQuiet /\ surface = "main" /\ PeerQuiet /\ NcQuiet /\ HTTPInit

NextOps ==
    \/ \E g \in Goroutines : \E op \in OperationsOf(g) :
          \E bad \in 0..op.checks : OpStart(g, op, bad)
    \/ \E g \in Goroutines : RLock(g)
    \/ \E g \in Goroutines : FastPath(g)
    \/ \E g \in Goroutines : FastAttach(g)
    \/ \E g \in Goroutines : Lock(g)
    \/ \E g \in Goroutines : Recheck(g)
    \/ \E g \in Goroutines : GenerateJWT(g)
    \/ \E g \in Goroutines :
          \E params \in (IF opcall[g].op.headers THEN CallHeaders ELSE {NewHeaders}) :
            OpAuthorized(g, params)
    \/ \E g \in Goroutines, r \in MainResponses : OpSend(g, r)

SpecOps == InitOps /\ [][NextOps]_vars

\* The control-panel client with its unauthenticated operations, callers
\* that cancel their contexts, and a second client built with WithToken.
InitCPEnv ==
    /\ CPInit /\ PeerInit
    /\ AuthQuiet /\ ClQuiet /\ surface = "controlpanel" /\ OpQuiet /\ NcQuiet
    /\ HTTPInit

NextCPEnv ==
    \/ \E g \in Goroutines, op \in Operations : CPBegin(g, op)
    \/ \E g \in Goroutines, op \in UnauthenticatedOperations, nilReq \in BOOLEAN :
          CPBeginUnauthenticated(g, op, nilReq)
    \/ \E g \in Goroutines : CPCancel(g)
    \/ \E g \in Goroutines : CPAttach(g)
    \/ \E g \in Goroutines : \E r \in RoundTrip(DispatchContext(g)) : CPSend(g, r)
    \/ \E g \in Goroutines : \E r \in RoundTrip(DispatchContext(g)) :
          CPSendUnauthenticated(g, r)
    \/ \E g \in Goroutines : CPLock(g)
    \/ \E g \in Goroutines : CPRefresh(g)
    \/ \E g \in Goroutines : \E r \in RoundTrip(RefreshContext(g)) : CPRefreshed(g, r)
    \/ \E g \in Goroutines : CPWriteID(g)
    \/ \E g \in Goroutines : CPWriteRest(g)
    \/ \E g \in Goroutines : CPCallback(g)
    \/ \E g \in Goroutines : \E r \in RoundTrip(ReplayContext(g)) : CPReplay(g, r)

SpecCPEnv == InitCPEnv /\ [][NextCPEnv]_vars

\* Both clients: the main API operations, or the control-panel ones.
InitSurfaces == InitOps \/ InitCPEnv

NextSurfaces ==
    \/ surface = "main" /\ NextOps
    \/ surface = "controlpanel" /\ NextCPEnv

SpecSurfaces == InitSurfaces /\ [][NextSurfaces]_vars

InitNew == NcInit /\ AuthQuiet /\ CPQuiet /\ ClQuiet /\ surface = "main"
           /\ OpQuiet /\ PeerQuiet /\ HTTPInit

NextNew ==
    \/ BuildOption
    \/ NewClient

SpecNew == InitNew /\ [][NextNew]_vars

\* Clients of both packages constructed one after another in one process.
InitHTTP ==
    /\ HTTPInit
    /\ AuthQuiet /\ CPQuiet /\ ClQuiet /\ surface = "main"
    /\ OpQuiet /\ PeerQuiet /\ NcQuiet

NextHTTP ==
    \/ \E os \in HTTPArgLists : ConstructMain(os)
    \/ \E os \in HTTPArgLists : ConstructCP(os)

SpecHTTP == InitHTTP /\ [][NextHTTP]_vars

\* The authorizer of a client constructed without options, observed at the
\* instants around the end of its token's validity window.
Instants ==
    {AtSecond(3000), AtSecond(3590) - 1, AtSecond(3590), AtSecond(3595),
     AtSecond(3600)}

\* the clock is next read at a later one of these instants
JumpTo(t) ==
    /\ t > now
    /\ now' = t
    /\ UNCHANGED <<tokenTTL, extraTTL, signOK, token, expiresAt, readers, writer,
                   pc, call, calls, mints, cpVars, clVars, restVars>>

InitDefaults ==
    /\ now = 0
    /\ tokenTTL = ClientDefaultTokenTTL
    /\ extraTTL = ClientDefaultTokenTTLExtraTime
    /\ signOK = TRUE
    /\ token = NoToken
    /\ expiresAt = ZeroTime
    /\ readers = {}
    /\ writer = "none"
    /\ pc = [g \in Goroutines |-> "idle"]
    /\ call = [g \in Goroutines |-> NewCall]
    /\ calls = 0
    /\ mints = 0
    /\ CPQuiet /\ ClQuiet /\ surface = "main" /\ RestQuiet

NextDefaults ==
    \/ \E t \in Instants : JumpTo(t)
    \/ \E g \in Goroutines : Begin(g)
    \/ \E g \in Goroutines : RLock(g)
    \/ \E g \in Goroutines : FastPath(g)
    \/ \E g \in Goroutines : FastAttach(g)
    \/ \E g \in Goroutines : Lock(g)
    \/ \E g \in Goroutines : Recheck(g)
    \/ \E g \in Goroutines : GenerateJWT(g)

SpecDefaults == InitDefaults /\ [][NextDefaults]_vars

\* ---------------------------------------------------- main API: properties

Done(g) == pc[g] = "done"

\* g and h both failed the fast-path check with no generateJWT run in between:
\* both were on the slow path before either of them signed
RacedPastFastPath(g, h) ==
    /\ g # h
    /\ call[g].fastEpoch >= 0
    /\ call[g].fastEpoch = call[h].fastEpoch

Racers(g) == {h \in Goroutines : call[h].fastEpoch = call[g].fastEpoch}

\* C1 as stated: of the callers that raced past the fast-path check exactly
\* one runs generateJWT and all of them attach the same token (checked where
\* no signing failed).
C1_Original ==
    \A g \in Goroutines :
        (/\ call[g].fastEpoch >= 0
         /\ Cardinality(Racers(g)) > 1
         /\ \A h \in Racers(g) : Done(h) /\ ~call[h].err)
        => /\ Cardinality({h \in Racers(g) : call[h].ran}) = 1
           /\ \A h \in Racers(g) : call[h].hdr = call[g].hdr /\ call[h].hdr # NoHeader

\* C1 (amended): among callers that raced past the fast-path check, a caller
\* whose re-check under the write lock finds the token another racer has just
\* minted still unexpired (now + extraTTL < expiresAt) does not run generateJWT
\* and attaches that same token; a caller whose re-check finds the cache empty
\* or expired runs generateJWT itself.
C1_Theorem ==
    \A g \in Goroutines : \A h \in Goroutines :
        /\ (/\ RacedPastFastPath(g, h)
            /\ call[g].ran /\ ~call[g].err
            /\ call[h].chkEpoch = call[g].chkEpoch + 1
            /\ call[h].chkValid)
           => (~call[h].ran /\ call[h].hdr = call[g].hdr)
        /\ (Done(h) /\ call[h].chkEpoch >= 0 /\ ~call[h].chkValid) => call[h].ran

C1_Witness ==
    \E g \in Goroutines : \E h \in Goroutines :
        /\ RacedPastFastPath(g, h)
        /\ Done(g) /\ Done(h)
        /\ call[g].ran /\ ~call[g].err
        /\ call[h].chkEpoch = call[g].chkEpoch + 1
        /\ call[h].chkValid /\ ~call[h].ran
        /\ call[h].hdr = call[g].hdr /\ call[h].hdr # NoHeader

\* the step in which goroutine g returns from AuthorizeRequest
Returns(g) == pc[g] # "done" /\ pc'[g] = "done"

C2_NoMintInWindow == mints' > mints => ~NotExpired(token, expiresAt, now)

C2_MinterAttachesMinted ==
    \A g \in Goroutines :
        (Returns(g) /\ mints' > mints /\ signOK)
        => (token' # NoToken /\ call'[g].hdr = Bearer(token') /\ expiresAt' = token'.exp)

C2_ReuseInWindow ==
    \A g \in Goroutines :
        (/\ Returns(g)
         /\ call[g].entryValid
         /\ NotExpired(call[g].entryTok, call[g].entryTok.exp, now))
        => (call'[g].hdr = Bearer(call[g].entryTok) /\ ~call'[g].ran /\ token' = call[g].entryTok)

\* C2: generateJWT never runs while the cached token satisfies
\* now + extraTTL < expiresAt; the call that mints attaches the token it
\* minted, and every call that starts and returns inside that token's window
\* attaches that same token without signing.
C2_Theorem == [][C2_NoMintInWindow /\ C2_MinterAttachesMinted /\ C2_ReuseInWindow]_vars

C2_Witness ==
    \E g \in Goroutines : \E h \in Goroutines :
        /\ g # h /\ Done(g) /\ Done(h)
        /\ mints = 1
        /\ call[g].ran /\ ~call[g].err
        /\ call[h].entryValid /\ call[h].entryTok = call[g].hdr.tok
        /\ ~call[h].ran /\ call[h].hdr = call[g].hdr

\* C3 as stated: a call entered while the cached token has
\* now + extraTTL >= expiresAt mints a token that differs from the cached one
\* and expires strictly later.
C3_Original ==
    \A g \in Goroutines :
        (Done(g) /\ ~call[g].err /\ call[g].entryTok # NoToken /\ ~call[g].entryValid)
        => /\ call[g].ran
           /\ call[g].hdr.tok # call[g].entryTok
           /\ call[g].hdr.tok.exp > call[g].entryTok.exp

\* extraTTL rounded up to whole seconds is less than tokenTTL
SkewBelowTTL == extraTTL <= (tokenTTL - 1) * TicksPerSecond

C3_RecheckMissMints ==
    \A g \in Goroutines :
        (/\ pc[g] = "recheck" /\ pc'[g] # "recheck"
         /\ token # NoToken
         /\ ~Before(now + extraTTL, AtSecond(expiresAt)))
        => pc'[g] = "generate"

C3_MintIsLater ==
    \A g \in Goroutines :
        (pc[g] = "generate" /\ Returns(g) /\ signOK /\ token # NoToken)
        => /\ token'.iat = Unix(now)
           /\ expiresAt' = Unix(now) + tokenTTL
           /\ token'.exp = expiresAt'
           /\ SkewBelowTTL => (token' # token /\ expiresAt' > expiresAt)

\* C3 (amended): a call whose re-check under the write lock finds a cached
\* token with now + extraTTL >= expiresAt runs generateJWT, which caches a
\* token with iat = now in whole seconds and exp = iat + tokenTTL; that token
\* differs from the previous one and expires strictly later whenever tokenTTL
\* exceeds extraTTL rounded up to whole seconds.
C3_Theorem == [][C3_RecheckMissMints /\ C3_MintIsLater]_vars

C3_Witness ==
    \E g \in Goroutines :
        /\ Done(g) /\ call[g].ran /\ ~call[g].err
        /\ SkewBelowTTL
        /\ call[g].entryTok # NoToken
        /\ call[g].hdr.tok.exp > call[g].entryTok.exp

\* C4 as stated: a call that attaches a token it did not mint itself never
\* does so at a clock value at or past that token's expiresAt.
C4_Original ==
    \A g \in Goroutines :
        (Done(g) /\ ~call[g].ran /\ call[g].hdr # NoHeader) => ~call[g].chkPast

\* ----------------------------------------------- control panel: properties

CPDone(g) == cpc[g] = "done"

\* the first dispatch came back as a structured error saying "Unauthorized"
FirstUnauthorized(g) ==
    ccall[g].first.kind = "ErrorResponse" /\ ccall[g].first.msg = "Unauthorized"

\* C5 as stated: every call whose first dispatch returns "Unauthorized" makes
\* exactly one refresh call and exactly one replay and returns the replay's
\* outcome.
C5_Original ==
    \A g \in Goroutines :
        (CPDone(g) /\ FirstUnauthorized(g))
        => /\ ccall[g].nRefresh = 1
           /\ ccall[g].nReplay = 1
           /\ ccall[g].ret = ccall[g].second

\* C5 (amended): every call whose first dispatch returns "Unauthorized" makes
\* exactly one refresh call; if that call succeeds it makes exactly one replay
\* and returns the replay's outcome, also when the replay fails with
\* "Unauthorized" again; if the refresh call fails it makes no replay and
\* returns the wrapped refresh error.
C5_Theorem ==
    \A g \in Goroutines :
        /\ ccall[g].nRefresh <= 1 /\ ccall[g].nReplay <= 1
        /\ (CPDone(g) /\ FirstUnauthorized(g))
           => /\ ccall[g].nRefresh = 1
              /\ ccall[g].refreshErr.kind = "nil"
                 => (ccall[g].nReplay = 1 /\ ccall[g].ret = ccall[g].second)
              /\ ccall[g].refreshErr.kind # "nil"
                 => (ccall[g].nReplay = 0 /\ ccall[g].ret = Wrap(ccall[g].refreshErr))

C5_Witness ==
    \E g \in Goroutines :
        /\ CPDone(g) /\ FirstUnauthorized(g)
        /\ ccall[g].nRefresh = 1 /\ ccall[g].nReplay = 1
        /\ ccall[g].second.kind = "ErrorResponse"
        /\ ccall[g].second.msg = "Unauthorized"
        /\ ccall[g].ret = ccall[g].second

\* g and h received "Unauthorized" for requests carrying the same ID token,
\* before either of them had issued a refresh call
UnauthorizedTogether(g, h) ==
    /\ g # h
    /\ ccall[g].epoch >= 0
    /\ ccall[g].epoch = ccall[h].epoch
    /\ ccall[g].sent1.auth = ccall[h].sent1.auth

\* C6 as stated: callers that receive "Unauthorized" concurrently for the same
\* ID token do not each refresh: when the refresh call of one of them has
\* succeeded, the other has not made a successful refresh call of its own.
C6_Original ==
    \A g \in Goroutines : \A h \in Goroutines :
        (/\ UnauthorizedTogether(g, h)
         /\ CPDone(g) /\ CPDone(h)
         /\ ccall[g].nRefresh = 1 /\ ccall[g].refreshErr.kind = "nil")
        => ~(ccall[h].nRefresh = 1 /\ ccall[h].refreshErr.kind = "nil")

InCritical(g) ==
    cpc[g] \in {"refresh", "refreshing", "writeID", "writeRest", "callback", "replay"}

\* C7: a goroutine between its refresh call and the return of its replay holds
\* the mutex, so no two goroutines are there at once and at most one refresh
\* call of sendAuthenticatedRequest is in flight.
C7_Theorem ==
    /\ \A g \in Goroutines : InCritical(g) => mu = g
    /\ Cardinality({g \in Goroutines : InCritical(g)}) <= 1
    /\ Cardinality({g \in Goroutines : cpc[g] = "refreshing"}) <= 1

C7_Witness ==
    \E g \in Goroutines : \E h \in Goroutines :
        /\ cpc[g] = "refreshing"
        /\ cpc[h] = "lock"
        /\ FirstUnauthorized(h)

\* C8 as stated: every access to the credential is made holding the mutex, so
\* no goroutine is at its read of c.token.IDToken while another one is in the
\* middle of overwriting the credential.
C8_Original ==
    \A g \in Goroutines : \A h \in Goroutines :
        (cpc[g] = "attach" /\ ~cToken.nil) => cpc[h] \notin {"writeID", "writeRest"}

\* the body bytes of a request as it was built
BuiltBody(req) == IF req.body.present THEN req.body.data ELSE NoBytes

\* C9: the replay has the method, path, query, content type and body bytes of
\* the first dispatch, which are those the request was built with; only the
\* Authorization header differs.
C9_Theorem ==
    \A g \in Goroutines :
        /\ ccall[g].sent1 # NoSent
           => (/\ ccall[g].sent1.body = BuiltBody(ccall[g].op)
               /\ ccall[g].sent1.method = ccall[g].op.method
               /\ ccall[g].sent1.path = ccall[g].op.path
               /\ ccall[g].sent1.query = ccall[g].op.query)
        /\ ccall[g].nReplay = 1
           => ccall[g].sent2 = [ccall[g].sent1 EXCEPT !.auth = ccall[g].sent2.auth]

C9_Witness ==
    \E g \in Goroutines : \E h \in Goroutines :
        /\ ccall[g].nReplay = 1 /\ ccall[h].nReplay = 1
        /\ ccall[g].sent2.ctype = "application/json"
        /\ ccall[g].sent2.body = JSONBytes
        /\ ccall[h].sent2.ctype = "application/x-www-form-urlencoded"
        /\ ccall[h].sent2.body = FormBytes

\* no goroutine is between the two halves of the credential overwrite
NoWriter == \A g \in Goroutines : cpc[g] \notin {"writeID", "writeRest"}

C10_ReplayCarriesNew ==
    \A g \in Goroutines :
        ccall[g].nReplay = 1
        => ccall[g].sent2.auth = CPBearer(ccall[g].newTokenResp.id_token)

C10_CachedIsLatest == NoWriter => cToken = lastCred

C10_LaterCallsCarryLatest ==
    \A g \in Goroutines :
        /\ (cpc[g] = "attach" /\ cpc'[g] = "send" /\ NoWriter)
           => ccall'[g].req.auth = CPBearer(lastCred.IDToken)
        /\ (cpc[g] = "send" /\ cpc'[g] # "send")
           => ccall'[g].sent1.auth = ccall[g].req.auth

C10_OnlyRefreshWrites ==
    cToken' # cToken
    => \E g \in Goroutines :
           /\ mu = g
           /\ cpc[g] \in {"writeID", "writeRest"}
           /\ ccall[g].refreshErr.kind = "nil"
           /\ CredentialOf(ccall[g].newTokenResp) = lastCred

\* C10: after a successful refresh the replay carries the new ID token, the
\* cached credential equals the refresh response once it is written, a call
\* that reads the credential before another refresh succeeds dispatches with
\* that ID token, and only the overwrite after a successful refresh changes
\* the cached credential.
C10_Theorem ==
    [][/\ C10_ReplayCarriesNew'
       /\ C10_CachedIsLatest'
       /\ C10_LaterCallsCarryLatest
       /\ C10_OnlyRefreshWrites]_vars

C10_Witness ==
    \E g \in Goroutines : \E h \in Goroutines :
        /\ h # g
        /\ cpc[h] = "done" /\ ccall[h].nReplay = 1
        /\ ccall[h].sent2.auth = CPBearer(IDTokenNo(1))
        /\ lastCred = TokenOf(IDTokenNo(1), RefreshTokenNo(1), ExpiresInOf(1))
        /\ cToken = lastCred
        /\ ccall[g].nRefresh = 0
        /\ ccall[g].sent1.auth = CPBearer(IDTokenNo(1))
        /\ cpc[g] = "done"

\* the call of g took the branch that refreshes and replays
EnteredRefreshPath(g) ==
    \/ cpc[g] \in {"lock", "refresh", "refreshing", "writeID", "writeRest",
                   "callback", "replay"}
    \/ ccall[g].nRefresh > 0

\* the first dispatch of the call of g has returned
Dispatched(g) == ccall[g].first # NoOutcome

C11_Branch ==
    \A g \in Goroutines :
        /\ EnteredRefreshPath(g) => FirstUnauthorized(g)
        /\ (Dispatched(g) /\ FirstUnauthorized(g)) => EnteredRefreshPath(g)
        /\ (Dispatched(g) /\ ~FirstUnauthorized(g))
           => /\ cpc[g] = "done"
              /\ ccall[g].ret = ccall[g].first
              /\ ccall[g].nRefresh = 0
              /\ ccall[g].nReplay = 0
              /\ ccall[g].nCallback = 0
              /\ ccall[g].sent2 = NoSent

C11_CredentialKept ==
    cToken' # cToken
    => \E g \in Goroutines :
           cpc[g] \in {"writeID", "writeRest"} /\ FirstUnauthorized(g)

\* C11: a call takes the refresh-and-replay branch exactly when its first
\* dispatch returned a decoded structured error whose message is "Unauthorized",
\* whatever the status; after any other outcome of the first dispatch the call
\* has returned that outcome with no refresh call, no replay and no callback,
\* and only calls on the refresh branch ever change the credential.
C11_Theorem == [][C11_Branch' /\ C11_CredentialKept]_vars

C11_Witness ==
    \E g \in Goroutines : \E h \in Goroutines :
        /\ cpc[g] = "done"
        /\ ccall[g].first.kind = "ErrorResponse"
        /\ ccall[g].first.msg # "Unauthorized"
        /\ ccall[g].ret = ccall[g].first
        /\ cpc[h] = "done"
        /\ ccall[h].first.kind = "status"
        /\ ccall[h].ret = ccall[h].first
        /\ refreshCalls = 0

\* the refresh call of g has failed
RefreshFailed(g) == ccall[g].refreshErr.kind \notin {"none", "nil"}

C12_Returned ==
    \A g \in Goroutines :
        RefreshFailed(g)
        => /\ cpc[g] = "done"
           /\ ccall[g].ret.wrapped
           /\ Unwrap(ccall[g].ret) = ccall[g].refreshErr
           /\ ccall[g].ret # ccall[g].first
           /\ ccall[g].nReplay = 0
           /\ ccall[g].sent2 = NoSent
           /\ ccall[g].nCallback = 0

C12_CredentialKept ==
    \A g \in Goroutines :
        (cpc[g] \in {"refresh", "refreshing"} /\ RefreshFailed(g)')
        => (cToken' = cToken /\ cbLog' = cbLog)

\* C12: when the refresh call of a sendAuthenticatedRequest fails, the call
\* returns an error wrapping the refresh failure (not the first dispatch's
\* "Unauthorized"), with no replay and no callback, and the step on which the
\* failure is returned leaves the cached credential as it was when the
\* refresh call was issued.
C12_Theorem ==
    [][/\ C12_Returned'
       /\ C12_CredentialKept
       /\ \A g \in Goroutines : cpc[g] = "refreshing" => cToken' = cToken]_vars

C12_Witness ==
    \E g \in Goroutines : \E h \in Goroutines :
        /\ cpc[g] = "done" /\ ccall[g].refreshErr.kind = "ErrorResponse"
        /\ cpc[h] = "done" /\ ccall[h].refreshErr.kind = "transport"
        /\ cToken = InitialCredential

C13_Invocation ==
    cbLog' # cbLog
    => /\ onTokenRefreshed
       /\ Len(cbLog') = Len(cbLog) + 1
       /\ \E g \in Goroutines :
              /\ cpc[g] = "callback"
              /\ mu = g /\ mu' = g
              /\ ccall[g].refreshErr.kind = "nil"
              /\ cToken = CredentialOf(ccall[g].newTokenResp)
              /\ cbLog'[Len(cbLog')].seen = CredentialOf(ccall[g].newTokenResp)
              /\ ccall[g].nReplay = 0
              /\ ccall[g].ret = NoOutcome
              /\ ccall'[g].nCallback = 1

C13_OncePerRefresh ==
    \A g \in Goroutines :
        /\ (cpc[g] = "callback" /\ cpc'[g] # "callback" /\ onTokenRefreshed)
           => Len(cbLog') = Len(cbLog) + 1
        /\ ccall'[g].nReplay = 1
           => ccall'[g].nCallback = IF onTokenRefreshed THEN 1 ELSE 0
        /\ (ccall'[g].nRefresh = 0 \/ RefreshFailed(g)') => ccall'[g].nCallback = 0

\* C13: a configured callback is invoked exactly once for every successful
\* refresh and at no other time; at the invocation the cached credential
\* already equals the refresh response, the invoking goroutine holds the mutex
\* and its replay has not been dispatched.
C13_Theorem == [][C13_Invocation /\ C13_OncePerRefresh]_vars

C13_Witness ==
    \E g \in Goroutines :
        /\ cpc[g] = "done"
        /\ ccall[g].nReplay = 1 /\ ccall[g].nCallback = 1
        /\ Len(cbLog) = 2

\* C14 as stated: what an earlier callback invocation was given still equals
\* the response of its own refresh after later refreshes.
C14_Original ==
    NoWriter
    => \A i \in 1..Len(cbLog) : Deref(cbLog[i].ptr) = cbLog[i].seen

\* ------------------------------------------------ classifier properties
Classified == clPhase # "input"
Answered == Classified /\ ~clResp.terr
OutOfRange(st) == st < 200 \/ st > 500
NonOKInRange(st) == st >= 201 /\ st <= 500

\* C15: for a status outside [200, 500] both classifiers return the generic
\* "unexpected status code" error carrying the status, whatever the body is,
\* and decode nothing.
C15_Theorem ==
    (Answered /\ OutOfRange(clResp.status))
    => /\ clMain.err = Outcome("status", clResp.status, "")
       /\ clCP.err = Outcome("status", clResp.status, "")
       /\ clMain.val = NoValue
       /\ clCP.val = NoValue

C15_Witness ==
    /\ Answered
    /\ clResp.status = 502
    /\ clResp.body = "mainerror"
    /\ clMain.err.kind = "status"

\* C16: for a status in [201, 500] neither classifier returns success: a body
\* that decodes as the client's error record gives that ErrorResponse, any
\* other body the generic "unexpected API error" carrying only the status.
C16_Theorem ==
    (Answered /\ NonOKInRange(clResp.status))
    => /\ clMain.err = IF DecodesAsMainError(clResp.body)
                       THEN Outcome("ErrorResponse", 0, MainErrorMessage(clResp.body))
                       ELSE Outcome("apierror", clResp.status, "")
       /\ clCP.err = IF DecodesAsError(clResp.body)
                     THEN Outcome("ErrorResponse", 0, ErrorMessage(clResp.body))
                     ELSE Outcome("apierror", clResp.status, "")
       /\ clMain.val = NoValue
       /\ clCP.val = NoValue

C16_Witness ==
    /\ Answered
    /\ clResp.status = 204
    /\ clResp.body = "empty"
    /\ clCP.err.kind = "apierror"

\* C17 as stated: every non-2xx status with a body that decodes as the error
\* record gives an ErrorResponse, statuses below 200 and above 500 included.
C17_Original ==
    (Answered /\ (clResp.status < 200 \/ clResp.status > 299))
    => /\ DecodesAsMainError(clResp.body) => clMain.err.kind = "ErrorResponse"
       /\ DecodesAsError(clResp.body) => clCP.err.kind = "ErrorResponse"

\* C17 (amended): a body that decodes as the error record gives an
\* ErrorResponse exactly for the statuses in [201, 500]; for a status below 200
\* or above 500 the same body gives the generic status error, and for 200 it
\* gives no ErrorResponse either.
C17_Theorem ==
    Answered
    => /\ DecodesAsMainError(clResp.body)
          => /\ NonOKInRange(clResp.status) <=> clMain.err.kind = "ErrorResponse"
             /\ OutOfRange(clResp.status) => clMain.err.kind = "status"
       /\ DecodesAsError(clResp.body)
          => /\ NonOKInRange(clResp.status) <=> clCP.err.kind = "ErrorResponse"
             /\ OutOfRange(clResp.status) => clCP.err.kind = "status"

C17_Witness ==
    /\ Answered
    /\ clResp.status = 201
    /\ clResp.body = "object"
    /\ clMain.err.kind = "ErrorResponse"
    /\ clCP.err.kind = "ErrorResponse"

\* C18: for status 200 a classifier that was passed a result shape returns the
\* decoded body when it decodes and a decode error when it does not; without
\* a result shape it returns success and no value whatever the body; it never
\* returns an ErrorResponse.
C18_Theorem ==
    (Answered /\ clResp.status = 200)
    => \A res \in {clMain, clCP} :
           /\ (clWant /\ DecodesAsResult(clResp.body))
              => (res.err = Nil /\ res.val = clResp.body)
           /\ (clWant /\ ~DecodesAsResult(clResp.body))
              => (res.err = Outcome("decode", 0, "") /\ res.val = NoValue)
           /\ ~clWant => (res.err = Nil /\ res.val = NoValue)
           /\ res.err.kind # "ErrorResponse"

C18_Witness ==
    /\ Answered
    /\ clResp.status = 200
    /\ clWant
    /\ clResp.body = "unauthorized"
    /\ clMain = [err |-> Nil, val |-> "unauthorized"]

\* the class of a classifier's outcome
Class(res) ==
    IF res.err.kind = "nil"
    THEN IF res.val = NoValue THEN "empty success" ELSE "decoded value"
    ELSE res.err.kind

\* C19: for the same transport outcome, status and requested result shape,
\* and a body that is as decodable for one client's error record as for the
\* other's, sendRequest and sendRequestInternal give outcomes of the same
\* class.
C19_Theorem ==
    (Classified /\ (DecodesAsMainError(clResp.body) <=> DecodesAsError(clResp.body)))
    => Class(clMain) = Class(clCP)

C19_Witness ==
    /\ Answered
    /\ clResp.status = 401
    /\ clResp.body = "object"
    /\ Class(clMain) = "ErrorResponse"
    /\ Class(clCP) = "ErrorResponse"

\* the delivered error carries a decoded structured error
CarriesErrorResponse ==
    \/ clPath \in {"main", "controlpanel", "replay"} /\ clDelivered.kind = "ErrorResponse"
    \/ clPath = "refresh" /\ clDelivered.wrapped /\ clDelivered.kind = "ErrorResponse"

\* C20: IsErrorResponse returns the structured error and true for an error
\* that carries one, whether a classifier returned it directly, as the outcome
\* of a replay, or it is wrapped in a refresh failure; it returns nil and false
\* for validation, signing, transport, unexpected-status, unexpected-API-error
\* and decode errors.
C20_Theorem ==
    clPhase = "inspected"
    => IF CarriesErrorResponse
       THEN /\ clIs.ok
            /\ clIs.resp = Outcome("ErrorResponse", 0, clDelivered.msg)
       ELSE clIs = NotAnErrorResponse

C20_Witness ==
    /\ clPhase = "inspected"
    /\ clPath = "refresh"
    /\ clDelivered.wrapped
    /\ clIs.ok
    /\ clIs.resp.msg = "Unauthorized"

\* ------------------------------------------------ the reuse condition
\* the first token a client constructed without options mints at time 0
FirstDefaultToken == [iat |-> 0, exp |-> 3600]

\* now + extraTTL is strictly before expiresAt, as numbers of ticks
StrictlyBefore == now + extraTTL < expiresAt * TicksPerSecond

C30_Decision ==
    \A g \in Goroutines :
        /\ (pc[g] = "fast" /\ pc'[g] # "fast")
           => IF token # NoToken /\ StrictlyBefore
              THEN pc'[g] = "fastattach" /\ call'[g].hdr = Bearer(token)
              ELSE pc'[g] = "lock"
        /\ (pc[g] = "recheck" /\ pc'[g] # "recheck")
           => IF token # NoToken /\ StrictlyBefore
              THEN pc'[g] = "done" /\ call'[g].hdr = Bearer(token) /\ mints' = mints
              ELSE pc'[g] = "generate"
        /\ (pc[g] = "generate" /\ pc'[g] # "generate") => mints' = mints + 1
        /\ mints' # mints => pc[g] \in {"generate"} \/ pc'[g] = pc[g]

C30_DefaultsExample ==
    \A g \in Goroutines :
        (tokenTTL = 3600 /\ extraTTL = 10 * TicksPerSecond)
        => /\ (pc[g] = "fast" /\ pc'[g] # "fast" /\ token = FirstDefaultToken)
              => /\ now \in {AtSecond(3000), AtSecond(3590) - 1}
                    => (pc'[g] = "fastattach"
                        /\ call'[g].hdr = Bearer(FirstDefaultToken))
                 /\ now \in {AtSecond(3590), AtSecond(3595)} => pc'[g] = "lock"
           /\ (pc[g] = "recheck" /\ pc'[g] # "recheck" /\ token = FirstDefaultToken)
              => /\ now \in {AtSecond(3000), AtSecond(3590) - 1}
                    => (pc'[g] = "done"
                        /\ call'[g].hdr = Bearer(FirstDefaultToken))
                 /\ now \in {AtSecond(3590), AtSecond(3595)} => pc'[g] = "generate"
           /\ (pc[g] = "generate" /\ pc'[g] # "generate" /\ now = AtSecond(3595))
              => (token' = [iat |-> 3595, exp |-> 7195]
                  /\ call'[g].hdr = Bearer([iat |-> 3595, exp |-> 7195]))
           /\ (pc[g] = "fast" /\ pc'[g] # "fast" /\ mints = 0) => pc'[g] = "lock"
           /\ (pc[g] = "recheck" /\ pc'[g] # "recheck" /\ mints = 0)
              => pc'[g] = "generate"

\* C30: each check of AuthorizeRequest reuses the cached token exactly when
\* the cache is non-empty and now + extraTTL is strictly before expiresAt, and
\* the call mints otherwise, also at equality; with the defaults (3600 s,
\* 10 s) the token minted at 0 is reused at 3000 s and just before 3590 s and
\* replaced at 3590 s and at 3595 s, and the first call of a client mints.
C30_Theorem == [][C30_Decision /\ C30_DefaultsExample]_vars

C30_Witness ==
    \E g \in Goroutines :
        /\ pc[g] = "done"
        /\ now = AtSecond(3595)
        /\ mints = 2
        /\ call[g].ran
        /\ call[g].hdr = Bearer([iat |-> 3595, exp |-> 7195])
        /\ calls = 3

\* ------------------------------------------------------ construction
\* the construction has ended, by a return or by a panic
Constructed == ncPhase = "panicked" \/ (ncPhase = "returned" /\ ncErr # NoOutcome)

\* some WithTokenTTL argument of the call is outside (0, 86400]
InvalidTTLArg ==
    \E i \in 1..Len(ncArgs) :
        ncArgs[i].opt = "WithTokenTTL" /\ (ncArgs[i].arg < 1 \/ ncArgs[i].arg > 86400)

InvalidInput == ncApp = "" \/ ncKey = "nil" \/ InvalidTTLArg

\* C23 as stated: invalid input is reported as a configuration error returned
\* from construction and no client is returned.
C23_Original ==
    (Constructed /\ InvalidInput)
    => /\ ncPhase = "returned"
       /\ ncErr.kind = "configuration"
       /\ ncClient.nil

\* C23 (amended): an empty application ID or a nil private key makes NewClient
\* return a configuration error and no client; a token TTL outside (0, 86400]
\* makes WithTokenTTL panic while the arguments are evaluated, so NewClient is
\* not entered and nothing is returned; valid input gives a client and no
\* error.
C23_Theorem ==
    Constructed
    => /\ InvalidTTLArg
          => (ncPhase = "panicked" /\ ncClient.nil /\ ncErr = NoOutcome)
       /\ (~InvalidTTLArg /\ InvalidInput)
          => (ncPhase = "returned" /\ ncClient.nil /\ ncErr.kind = "configuration")
       /\ ~InvalidInput
          => (ncPhase = "returned" /\ ~ncClient.nil /\ ncErr = Nil)

C23_Witness ==
    /\ ncPhase = "panicked"
    /\ ncApp = "app"
    /\ ncKey = "key"
    /\ Len(ncArgs) = 2
    /\ ncArgs[2] = [opt |-> "WithTokenTTL", arg |-> 86401]
    /\ Len(ncOptions) = 1
    /\ ncClient.nil
    /\ ncErr = NoOutcome

\* C24: every client NewClient returns has 0 < tokenTTL <= 86400, whatever
\* options it was given, and one constructed without options has tokenTTL
\* 3600 s and extraTTL 10 s.
C24_Theorem ==
    (ncPhase = "returned" /\ ncErr = Nil)
    => /\ ~ncClient.nil
       /\ 0 < ncClient.tokenTTL
       /\ ncClient.tokenTTL <= 86400
       /\ ncArgs = <<>>
          => (ncClient.tokenTTL = 3600 /\ ncClient.extraTTL = 10 * TicksPerSecond)

C24_Witness ==
    /\ ncPhase = "returned"
    /\ ncErr = Nil
    /\ Len(ncArgs) = 2
    /\ ncArgs[1] = [opt |-> "WithTokenTTL", arg |-> 1]
    /\ ncArgs[2] = [opt |-> "WithTokenTTL", arg |-> 86400]
    /\ ncClient.tokenTTL = 86400

\* ------------------------------------------- main API: the operations
\* the operation of g was called with an empty (or nil) input
EmptyInput(g) == opcall[g].bad > 0

\* C21: an operation called with an empty identifier, a nil request or an
\* empty code returns a validation error at once: it makes no transport call
\* and the step leaves the cached token, its expiry and the number of tokens
\* minted as they were (AuthorizeRequest is not entered).
C21_Step ==
    \A g \in Goroutines :
        (opcall'[g] # opcall[g] /\ opcall'[g].bad > 0)
        => /\ opc'[g] = "done"
           /\ opcall'[g].err = ValidationError
           /\ opcall'[g].nDo = 0
           /\ token' = token
           /\ expiresAt' = expiresAt
           /\ mints' = mints
           /\ calls' = calls
           /\ pc' = pc

C21_Theorem == [][C21_Step]_vars

C21_Witness ==
    /\ opc["g1"] = "done"
    /\ opcall["g1"].op = AuthorizeSession
    /\ opcall["g1"].bad = 2
    /\ opcall["g1"].err = ValidationError
    /\ opcall["g1"].nDo = 0
    /\ token # NoToken
    /\ mints = 1
    /\ opCalls = 2

\* C22: when signing fails, AuthorizeRequest returns an error, the operation
\* returns that error and makes no transport call, and generateJWT is run at
\* most once in a call (a step that signs belongs to a call that has not
\* signed yet).
C22_Returned ==
    \A g \in Goroutines :
        (opc[g] \in {"send", "done"} /\ ~EmptyInput(g) /\ call[g].err)
        => /\ opc[g] = "done"
           /\ opcall[g].err.kind = "signing"
           /\ opcall[g].err.wrapped
           /\ opcall[g].nDo = 0
           /\ opcall[g].sent = NewHeaders

C22_SignsOnce ==
    mints' # mints
    => /\ mints' = mints + 1
       /\ \E g \in Goroutines : ~call[g].ran /\ call'[g].ran /\ pc'[g] = "done"

C22_Theorem == [][C22_Returned' /\ C22_SignsOnce]_vars

C22_Witness ==
    /\ ~signOK
    /\ opc["g1"] = "done"
    /\ opcall["g1"].op = GetApplication
    /\ call["g1"].err
    /\ opcall["g1"].err = Wrap(SigningError)
    /\ opcall["g1"].nDo = 0
    /\ opCalls = 2
    /\ mints = 2
    /\ token = NoToken

\* C26 as stated: every request handed to the transport carries the
\* Authorization header "Bearer " + the token the authorizer attached for that
\* call, whatever the client's headers and the call's Headers are.
C26_Original ==
    \A g \in Goroutines :
        opcall[g].nDo > 0
        => /\ "Authorization" \in DOMAIN opcall[g].sent
           /\ call[g].hdr.scheme = "Bearer"
           /\ opcall[g].sent["Authorization"] = call[g].hdr

\* the canonical keys of a Header
CanonicalKeys(h) == {CanonicalKey(k) : k \in DOMAIN h}

\* C27 as stated: a header of the client is sent unchanged unless the call's
\* Headers set the same key, and then the call's value is sent.
C27_Original ==
    \A g \in Goroutines :
        opcall[g].nDo > 0
        => \A k \in DOMAIN cHeaders :
             /\ CanonicalKey(k) \in DOMAIN opcall[g].sent
             /\ IF CanonicalKey(k) \in CanonicalKeys(opcall[g].params)
                THEN \E k2 \in DOMAIN opcall[g].params :
                        /\ CanonicalKey(k2) = CanonicalKey(k)
                        /\ opcall[g].sent[CanonicalKey(k)] = opcall[g].params[k2]
                ELSE opcall[g].sent[CanonicalKey(k)] = cHeaders[k]

\* C27 (amended): the header sent under a canonical key is the call's value
\* when the call's Headers have a key of that canonical form; otherwise the
\* bearer token for Authorization and application/json for Content-Type on a
\* request with a body, whatever the client's headers say; otherwise the
\* client's value (one of them, when several of its keys have that canonical
\* form). Nothing else is sent, and no step changes the client's headers.
C27_Layered ==
    \A g \in Goroutines :
        opcall[g].nDo > 0
        => /\ DOMAIN opcall[g].sent =
                CanonicalKeys(cHeaders) \cup CanonicalKeys(opcall[g].params)
                \cup {"Authorization"}
                \cup (IF opcall[g].op.body THEN {"Content-Type"} ELSE {})
           /\ \A x \in DOMAIN opcall[g].sent :
                IF x \in CanonicalKeys(opcall[g].params)
                THEN \E k \in DOMAIN opcall[g].params :
                        CanonicalKey(k) = x /\ opcall[g].sent[x] = opcall[g].params[k]
                ELSE IF x = "Authorization"
                THEN opcall[g].sent[x] = call[g].hdr
                ELSE IF x = "Content-Type" /\ opcall[g].op.body
                THEN opcall[g].sent[x] = ApplicationJSON
                ELSE \E k \in DOMAIN cHeaders :
                        CanonicalKey(k) = x /\ opcall[g].sent[x] = cHeaders[k]

C27_Theorem == [][C27_Layered' /\ cHeaders' = cHeaders]_vars

C27_Witness ==
    /\ cHeaders = [k \in {"Psu-Ip-Address"} |-> Plain("client", k)]
    /\ opCalls = 2
    /\ opc["g1"] = "done"
    /\ opcall["g1"].op = DeleteSession
    /\ opcall["g1"].nDo = 1
    /\ opcall["g1"].params = [k \in {"psu-ip-address"} |-> Plain("call", k)]
    /\ opcall["g1"].sent["Psu-Ip-Address"] = Plain("call", "psu-ip-address")
    /\ opc["g2"] = "done"
    /\ opcall["g2"].nDo = 1
    /\ opcall["g2"].sent["Psu-Ip-Address"] = Plain("client", "Psu-Ip-Address")

\* --------------------------------------------------- transport calls
\* C25: a main API operation and an unauthenticated control-panel operation
\* make at most one transport call and return a transport failure as it is;
\* an authenticated control-panel operation makes at most one dispatch of the
\* request as built, one refresh call and one replay.
C25_Theorem ==
    \A g \in Goroutines :
        /\ opcall[g].nDo <= 1
        /\ opcall[g].err.kind = "transport"
           => (opcall[g].nDo = 1 /\ opc[g] = "done" /\ ~opcall[g].err.wrapped)
        /\ ccall[g].nSend <= 1
        /\ ccall[g].nRefresh <= 1
        /\ ccall[g].nReplay <= 1
        /\ ccall[g].op \in UnauthenticatedOperations
           => /\ ccall[g].nRefresh = 0
              /\ ccall[g].nReplay = 0
              /\ ccall[g].first.kind = "transport"
                 => (cpc[g] = "done" /\ ccall[g].ret = ccall[g].first
                     /\ ~ccall[g].ret.wrapped)

C25_Witness ==
    /\ surface = "controlpanel"
    /\ cpc["g1"] = "done"
    /\ ccall["g1"].op = RegisterApplication
    /\ ccall["g1"].nSend = 1
    /\ ccall["g1"].nRefresh = 1
    /\ ccall["g1"].nReplay = 1
    /\ ccall["g1"].second.kind = "transport"
    /\ ccall["g1"].ret = ccall["g1"].second
    /\ cpc["g2"] = "done"
    /\ ccall["g2"].op = RefreshToken
    /\ ccall["g2"].nSend = 1
    /\ ccall["g2"].first.kind = "transport"

\* C28 as stated: no step of an operation on one client changes the
\* credential another client observes.
C28_Original == [][PeerObserved' = PeerObserved]_vars

\* C29: every transport call of an operation is made with the caller's
\* context: once that context is cancelled, a dispatch, a refresh call or a
\* replay of the operation that returns, returns the transport's error. A
\* cancelled caller waiting for the mutex leaves the wait only by acquiring
\* it; its refresh call then fails, the credential is left as it was, the
\* mutex is released and the wrapped error is returned.
C29_Aborts(g) ==
    ccall[g].ctxDone
    => /\ ccall'[g].nSend = ccall[g].nSend + 1
          => ccall'[g].first.kind = "transport"
       /\ (ccall[g].refreshErr = NoOutcome /\ ccall'[g].refreshErr # NoOutcome)
          => ccall'[g].refreshErr.kind = "transport"
       /\ ccall'[g].nReplay = ccall[g].nReplay + 1
          => ccall'[g].second.kind = "transport"

C29_Waiter(g) ==
    (ccall[g].ctxDone /\ cpc[g] = "lock" /\ cpc'[g] # "lock")
    => /\ mu = "none"
       /\ IF cToken.nil
          THEN cpc'[g] = "done" /\ mu' = "none"
          ELSE cpc'[g] = "refresh" /\ mu' = g

C29_RefreshFails(g) ==
    (ccall[g].ctxDone /\ cpc[g] = "refreshing" /\ cpc'[g] # "refreshing")
    => /\ cpc'[g] = "done"
       /\ cToken' = cToken
       /\ mu' = "none"
       /\ ccall'[g].ret.kind = "transport"
       /\ ccall'[g].ret.wrapped
       /\ ccall'[g].nReplay = 0

C29_Theorem ==
    [][\A g \in Goroutines : C29_Aborts(g) /\ C29_Waiter(g) /\ C29_RefreshFails(g)]_vars

C29_Witness ==
    /\ cpc["g1"] = "done"
    /\ ccall["g1"].nReplay = 1
    /\ ccall["g1"].ret = Nil
    /\ cpc["g2"] = "done"
    /\ ccall["g2"].ctxDone
    /\ ccall["g2"].epoch = 0
    /\ ccall["g2"].nRefresh = 1
    /\ ccall["g2"].refreshErr.kind = "transport"
    /\ ccall["g2"].ret.wrapped
    /\ refreshCalls = 2
    /\ mu = "none"
    /\ cToken = CredentialOf(ccall["g1"].newTokenResp)

\* ------------------------------------------------- the cached pair
\* the cached token and expiresAt belong to one mint, or both are empty
PairConsistent ==
    \/ token = NoToken /\ expiresAt = ZeroTime
    \/ /\ token # NoToken
       /\ expiresAt = token.exp
       /\ token.exp = token.iat + tokenTTL

\* C31: whenever a goroutine holds the read lock (and whenever no goroutine
\* holds the write lock), token and expiresAt are both empty or expiresAt is
\* the exp of the cached token, which is its iat + tokenTTL; a step that
\* changes token or expiresAt is made by the holder of the write lock while
\* no reader holds the read lock.
C31_ReadersSeePair == (readers # {} \/ writer = "none") => PairConsistent

C31_WrittenUnderLock ==
    (token' # token \/ expiresAt' # expiresAt)
    => /\ writer # "none"
       /\ readers = {}
       /\ pc[writer] \in {"generate", "storeExpiresAt"}

C31_Theorem == [][C31_ReadersSeePair' /\ C31_WrittenUnderLock]_vars

\* the second mint has assigned a.token and not yet a.expiresAt: the pair is
\* that of two mints, and the goroutine that wants to read it waits at RLock
C31_Witness ==
    /\ pc["g2"] = "storeExpiresAt"
    /\ writer = "g2"
    /\ mints = 2
    /\ token.iat > 0
    /\ expiresAt # token.exp
    /\ expiresAt = tokenTTL
    /\ pc["g1"] = "rlock"
    /\ readers = {}

\* ------------------------------------------------ an absent credential
\* C32 as stated: with the credential absent, a sendAuthenticatedRequest call
\* comes back to its caller, with the error of its dispatch when that was
\* Unauthorized, and makes no refresh call, no replay and no callback.
C32_Original ==
    cToken.nil
    => \A g \in Goroutines :
         /\ cpc[g] # "panicked"
         /\ ccall[g].nRefresh = 0
         /\ ccall[g].nReplay = 0
         /\ ccall[g].nCallback = 0
         /\ (cpc[g] = "done" /\ ccall[g].first.msg = "Unauthorized")
            => ccall[g].ret = ccall[g].first

\* ------------------------------------------------- the refresh token
\* the refresh of h succeeded and its refresh token has been stored
Replaced(h) ==
    /\ ccall[h].refreshErr.kind = "nil"
    /\ cpc[h] \in {"callback", "replay", "done"}

\* C33: a refresh call is issued by the holder of the mutex with the refresh
\* token cached at that moment, which is the one of the latest successful
\* refresh (the initial one when none succeeded), and never with a refresh
\* token that a successful refresh has replaced.
C33_Step ==
    \A g \in Goroutines :
        ccall'[g].nRefresh = ccall[g].nRefresh + 1
        => /\ mu = g
           /\ ccall'[g].usedRT = cToken.RefreshToken
           /\ ccall'[g].usedRT = lastCred.RefreshToken
           /\ \A h \in Goroutines :
                Replaced(h) => ccall'[g].usedRT # ccall[h].usedRT

C33_Theorem == [][C33_Step]_vars

C33_Witness ==
    /\ ccall["g1"].nRefresh = 1
    /\ ccall["g1"].usedRT = RefreshTokenNo(0)
    /\ ccall["g1"].refreshErr = Nil
    /\ cpc["g1"] = "done"
    /\ ccall["g2"].nRefresh = 1
    /\ ccall["g2"].usedRT = RefreshTokenNo(1)
    /\ cpc["g2"] = "refreshing"

\* ------------------------------------------------------- termination
\* g is inside AuthorizeRequest / inside sendAuthenticatedRequest
InAuthorizeRequest(g) == pc[g] \notin {"idle", "done"}
InSendAuthenticated(g) == cpc[g] \notin {"idle", "done", "panicked"}

\* C34 as stated, for sendAuthenticatedRequest: under fair scheduling, with
\* transport calls and callbacks that return, every call eventually returns.
C34_Original ==
    \A g \in Goroutines : (cpc[g] = "attach") ~> (cpc[g] = "done")

\* What does hold of the two functions.  No goroutine that is outside them
\* holds a lock, the read lock is not held by a goroutine that asks for the
\* write lock, and the mutex holder is on the refresh path.
LocksReleased ==
    \A g \in Goroutines :
        /\ ~InAuthorizeRequest(g) => (g \notin readers /\ writer # g)
        /\ pc[g] \in {"lock", "recheck", "generate"} => g \notin readers
        /\ ~InSendAuthenticated(g) => mu # g
        /\ mu = g => cpc[g] \in {"refresh", "refreshing", "writeID", "writeRest",
                                  "callback", "replay"}

\* every AuthorizeRequest call returns
AuthorizeRequestReturns ==
    \A g \in Goroutines : InAuthorizeRequest(g) ~> (pc[g] = "done")

\* every sendAuthenticatedRequest call ends: it returns, or, when the
\* credential is absent, panics at its first statement
SendAuthenticatedEnds ==
    \A g \in Goroutines :
        InSendAuthenticated(g) ~> (cpc[g] = "done" \/ (cToken.nil /\ cpc[g] = "panicked"))

\* ------------------------------------------- unauthenticated operations
\* g takes a step of an unauthenticated operation
UnauthenticatedStep(g) ==
    /\ ccall'[g].op \in UnauthenticatedOperations
    /\ cpc'[g] # cpc[g] \/ ccall'[g] # ccall[g]

\* the error is a structured error whose message is "Unauthorized"
UnauthorizedError(e) == e.kind = "ErrorResponse" /\ e.msg = "Unauthorized"

\* C35: a step of RelyingpartyGetOOBConfirmationCode, RelyingpartyEmailLinkSignin
\* or RefreshToken leaves the mutex and the cached credential as they are,
\* sends no Authorization header and makes no refresh call, replay or
\* callback; the call only waits for its one dispatch or has returned, and an
\* "Unauthorized" answer is returned as it is.  The refresh call made inside
\* sendAuthenticatedRequest is made by the mutex holder, issues no further
\* refresh call when it is answered, and an "Unauthorized" answer ends the
\* call with the wrapped error, the credential untouched, the mutex released.
C35_Unauthenticated(g) ==
    UnauthenticatedStep(g) =>
        /\ mu' = mu /\ mu' # g
        /\ cToken' = cToken
        /\ refreshCalls' = refreshCalls
        /\ cbLog' = cbLog
        /\ cpc'[g] \in {"usend", "done"}
        /\ ccall'[g].sent1.auth = CPNoHeader
        /\ ccall'[g].sent2 = NoSent
        /\ ccall'[g].nSend <= 1
        /\ ccall'[g].nRefresh = 0 /\ ccall'[g].nReplay = 0 /\ ccall'[g].nCallback = 0
        /\ UnauthorizedError(ccall'[g].first)
           => (cpc'[g] = "done" /\ ccall'[g].ret = ccall'[g].first)

C35_InLockRefresh(g) ==
    (cpc[g] = "refreshing" /\ cpc'[g] # "refreshing") =>
        /\ mu = g
        /\ refreshCalls' = refreshCalls
        /\ ccall'[g].nRefresh = 1
        /\ UnauthorizedError(ccall'[g].refreshErr)
           => /\ cpc'[g] = "done"
              /\ ccall'[g].ret = Wrap(ccall'[g].refreshErr)
              /\ ccall'[g].nReplay = 0
              /\ cToken' = cToken
              /\ mu' = "none"

C35_Theorem ==
    [][\A g \in Goroutines : C35_Unauthenticated(g) /\ C35_InLockRefresh(g)]_vars

\* a RefreshToken call was answered "Unauthorized" and returned that error,
\* and the refresh call inside an authenticated operation was answered
\* "Unauthorized" too
C35_Witness ==
    /\ cpc["g1"] = "done"
    /\ ccall["g1"].op = RefreshToken
    /\ ccall["g1"].nSend = 1
    /\ UnauthorizedError(ccall["g1"].ret)
    /\ cpc["g2"] = "done"
    /\ ccall["g2"].op \notin UnauthenticatedOperations
    /\ ccall["g2"].nRefresh = 1
    /\ UnauthorizedError(ccall["g2"].refreshErr)
    /\ ccall["g2"].ret = Wrap(ccall["g2"].refreshErr)
    /\ refreshCalls = 1
    /\ ~cToken.nil
    /\ mu = "none"

\* ------------------------------------------- isolation of the HTTP client
\* the http.Client the i-th client sends its requests with, as it is now
HTTPClientOf(i) == httpClients[clients[i].httpClient]

\* C36 as stated: constructing a client changes neither the Transport nor the
\* Timeout of http.DefaultClient, nor those of the HTTP client that any
\* client constructed before sends its requests with.
C36_Original ==
    [][Len(clients') = Len(clients) + 1
       => /\ httpClients'[HTTPDefaultClient] = httpClients[HTTPDefaultClient]
          /\ \A i \in 1..Len(clients) :
                httpClients'[clients[i].httpClient] = HTTPClientOf(i)]_vars

\* two clients were constructed without WithHTTPClient, the second with
\* WithHTTPTransport: both hold http.DefaultClient, whose Transport is now
\* the second client's and whose Timeout is the main client's
C36_Witness ==
    /\ Len(clients) = 2
    /\ clients[1] = [pkg |-> "controlpanel", httpClient |-> HTTPDefaultClient]
    /\ clients[2] = [pkg |-> "main", httpClient |-> HTTPDefaultClient]
    /\ HTTPClientOf(1) = [Transport |-> "t1", Timeout |-> ClientTimeout]

====
